---- MODULE Spec2Model ----
(***************************************************************************)
(* Kharon Pay WhatsApp bot (src/src/server.rs, src/src/main.rs,            *)
(* src/src/model.rs): the session store, the per-state message handlers,   *)
(* the detached account-creation task and the transaction polling task.    *)
(*                                                                         *)
(* Text is modelled as a sequence of characters (one-character strings;    *)
(* the token "U+0663" stands for the single two-byte character ARABIC-     *)
(* INDIC DIGIT THREE).  Option<T> is modelled as a sequence of length 0    *)
(* (None) or 1 (Some).                                                     *)
(***************************************************************************)
EXTENDS Integers, Sequences, FiniteSets, TLC

\* ------------------------------------------------------------------ bounds
\* Webhook deliveries accepted in one behaviour of the concurrent system
MaxDeliveries == 3

\* Webhook deliveries accepted in one behaviour of the single-user system
MaxMessages == 4

\* Webhook deliveries accepted in one behaviour of the withdrawal system
MaxFlowMessages == 7

\* Webhook deliveries accepted in one behaviour of the background-task system
MaxTaskMessages == 2

\* Webhook deliveries accepted in one behaviour of the execution system
MaxExecMessages == 2

\* ------------------------------------------------------------ Option<T>
NoneV == <<>>
Some(x) == <<x>>
IsSome(o) == o # <<>>
Unwrap(o) == o[1]

\* ------------------------------------------------------------------ text
Upper ==
    <<"A","B","C","D","E","F","G","H","I","J","K","L","M",
      "N","O","P","Q","R","S","T","U","V","W","X","Y","Z">>

Lower ==
    <<"a","b","c","d","e","f","g","h","i","j","k","l","m",
      "n","o","p","q","r","s","t","u","v","w","x","y","z">>

AsciiDigits ==
    <<"0","1","2","3","4","5","6","7","8","9">>

WideDigit == "U+0663"

Whitespace == {" ", "\n"}

\* char::to_lowercase / char::to_uppercase on the modelled alphabet
ToLowerChar(c) ==
    IF \E i \in 1..26 : Upper[i] = c
    THEN Lower[CHOOSE i \in 1..26 : Upper[i] = c]
    ELSE c

ToUpperChar(c) ==
    IF \E i \in 1..26 : Lower[i] = c
    THEN Upper[CHOOSE i \in 1..26 : Lower[i] = c]
    ELSE c

to_lowercase(s) == [i \in 1..Len(s) |-> ToLowerChar(s[i])]

\* Variant: the symbol is stored as typed
to_uppercase_skipped(s) == s

to_uppercase(s) == [i \in 1..Len(s) |-> ToUpperChar(s[i])]

\* str::contains
contains(s, sub) ==
    \E i \in 0..(Len(s) - Len(sub)) : SubSeq(s, i + 1, i + Len(sub)) = sub

\* str::split on a set of separator characters: every field, empty ones too
RECURSIVE split(_, _)
split(s, seps) ==
    IF \E i \in 1..Len(s) : s[i] \in seps
    THEN LET i == CHOOSE j \in 1..Len(s) :
                      /\ s[j] \in seps
                      /\ \A k \in 1..(j - 1) : s[k] \notin seps
         IN  <<SubSeq(s, 1, i - 1)>> \o split(SubSeq(s, i + 1, Len(s)), seps)
    ELSE <<s>>

\* str::split_whitespace: the non-empty fields between runs of whitespace
split_whitespace(s) == SelectSeq(split(s, Whitespace), LAMBDA f : f # <<>>)

\* str::trim
RECURSIVE trim(_)
trim(s) ==
    IF s = <<>> THEN s
    ELSE IF s[1] \in Whitespace THEN trim(Tail(s))
    ELSE IF s[Len(s)] \in Whitespace THEN trim(SubSeq(s, 1, Len(s) - 1))
    ELSE s

\* UTF-8 length of one character
ByteLen(c) == IF c = WideDigit THEN 2 ELSE 1

\* str::len: the length in bytes
RECURSIVE len(_)
len(s) == IF s = <<>> THEN 0 ELSE ByteLen(s[1]) + len(Tail(s))

IsAsciiDigit(c) == \E i \in 1..10 : AsciiDigits[i] = c

\* char::is_numeric: Unicode Nd/Nl/No, of which the alphabet has 0-9 and U+0663
is_numeric(c) == IsAsciiDigit(c) \/ c = WideDigit

DigitVal(c) == (CHOOSE i \in 1..10 : AsciiDigits[i] = c) - 1

AllDigits(s) == \A i \in 1..Len(s) : IsAsciiDigit(s[i])

RECURSIVE DecVal(_)
DecVal(s) ==
    IF s = <<>> THEN 0
    ELSE 10 * DecVal(SubSeq(s, 1, Len(s) - 1)) + DigitVal(s[Len(s)])

RECURSIVE Pow10(_)
Pow10(n) == IF n <= 0 THEN 1 ELSE 10 * Pow10(n - 1)

\* An f64 is kept as [kind, tenths]: a finite number in tenths (finer
\* fractions are cut off), an infinity (tenths = +1 / -1) or NaN.
Num(t) == [kind |-> "num", tenths |-> t]

\* <f64 as FromStr>::from_str: [sign] ("inf" | "infinity" | "nan" | decimal),
\* decimal = digits ["." digits] | "." digits, then an optional exponent
\* ("e" | "E") [sign] digits.  No surrounding whitespace is accepted.
parse_f64(s) ==
    LET signed == s # <<>> /\ s[1] \in {"+", "-"}
        neg    == s # <<>> /\ s[1] = "-"
        body   == IF signed THEN Tail(s) ELSE s
        low    == to_lowercase(body)
        eparts == split(low, {"e"})
        mant   == eparts[1]
        mparts == split(mant, {"."})
        ip     == mparts[1]
        fp     == IF Len(mparts) = 2 THEN mparts[2] ELSE <<>>
        expo   == IF Len(eparts) = 2 THEN eparts[2] ELSE <<>>
        esign  == expo # <<>> /\ expo[1] \in {"+", "-"}
        edig   == IF esign THEN Tail(expo) ELSE expo
        eneg   == expo # <<>> /\ expo[1] = "-"
        mantOk == /\ Len(mparts) <= 2
                  /\ AllDigits(ip) /\ AllDigits(fp)
                  /\ Len(ip) + Len(fp) >= 1
        expOk  == \/ Len(eparts) = 1
                  \/ Len(eparts) = 2 /\ edig # <<>> /\ AllDigits(edig)
        m10    == DecVal(ip) * 10 + (IF fp = <<>> THEN 0 ELSE DigitVal(fp[1]))
        e      == IF Len(eparts) = 2 THEN DecVal(edig) ELSE 0
        mag    == IF eneg THEN m10 \div Pow10(e) ELSE m10 * Pow10(e)
    IN  IF low \in {<<"i","n","f">>, <<"i","n","f","i","n","i","t","y">>}
        THEN Some([kind |-> "inf", tenths |-> IF neg THEN -1 ELSE 1])
        ELSE IF low = <<"n","a","n">>
        THEN Some([kind |-> "nan", tenths |-> 0])
        ELSE IF mantOk /\ expOk
        THEN Some(Num(IF neg THEN -mag ELSE mag))
        ELSE NoneV

\* "hi"
M_hi ==
    <<"h","i">>
\* "Help"
M_help ==
    <<"H","e","l","p">>
\* "create"
M_create ==
    <<"c","r","e","a","t","e">>
\* "address"
M_address ==
    <<"a","d","d","r","e","s","s">>
\* "balance"
M_balance ==
    <<"b","a","l","a","n","c","e">>
\* "withdraw"
M_withdraw ==
    <<"w","i","t","h","d","r","a","w">>
\* "withdraw 5 usdt"
M_withdraw_5_usdt ==
    <<"w","i","t","h","d","r","a","w"," ","5"," ","u","s","d","t">>
\* "withdraw 10 USDT"
M_withdraw_10_USDT ==
    <<"w","i","t","h","d","r","a","w"," ","1","0"," ","U","S","D","T">>
\* "withdraw abc USDT"
M_withdraw_abc_USDT ==
    <<"w","i","t","h","d","r","a","w"," ","a","b","c"," ","U","S","D","T">>
\* "withdraw -5 usdt"
M_withdraw_neg ==
    <<"w","i","t","h","d","r","a","w"," ","-","5"," ","u","s","d","t">>
\* "Withdraw 0.0 usdc"
M_withdraw_zero ==
    <<"W","i","t","h","d","r","a","w"," ","0",".","0"," ","u","s","d","c">>
\* "withdraw NaN usdt"
M_withdraw_nan ==
    <<"w","i","t","h","d","r","a","w"," ","N","a","N"," ","u","s","d","t">>
\* "confirm"
M_confirm ==
    <<"c","o","n","f","i","r","m">>
\* "cancel"
M_cancel ==
    <<"c","a","n","c","e","l">>
\* "yes"
M_yes ==
    <<"y","e","s">>
\* "no"
M_no ==
    <<"n","o">>
\* "Opay, 01234567890"
M_bank_ok ==
    <<"O","p","a","y",","," ","0","1","2","3","4","5","6","7","8","9","0">>
\* "Opay,123"
M_bank_short ==
    <<"O","p","a","y",",","1","2","3">>
\* "Opay, 01234abcde"
M_bank_alpha ==
    <<"O","p","a","y",","," ","0","1","2","3","4","a","b","c","d","e">>
\* "Opay, 0123456789, x"
M_bank_three ==
    <<"O","p","a","y",","," ","0","1","2","3","4","5","6","7","8","9",","," ","x">>
\* "Opay," followed by five ARABIC-INDIC DIGIT THREE (U+0663, two bytes each)
M_bank_wide ==
    <<"O","p","a","y",",","U+0663","U+0663","U+0663","U+0663","U+0663">>
\* "alice"
M_alice ==
    <<"a","l","i","c","e">>

\* ------------------------------------------------------------ data model
\* str::replace: every non-overlapping occurrence of `pat`, left to right
RECURSIVE replace(_, _, _)
replace(s, pat, to) ==
    IF Len(s) < Len(pat) \/ pat = <<>> THEN s
    ELSE IF SubSeq(s, 1, Len(pat)) = pat
    THEN to \o replace(SubSeq(s, Len(pat) + 1, Len(s)), pat, to)
    ELSE <<s[1]>> \o replace(Tail(s), pat, to)

WhatsappPrefix ==
    <<"w","h","a","t","s","a","p","p",":">>

\* The From fields of the deliveries: two users, the second one seen with
\* and without the channel prefix
Senders ==
    {WhatsappPrefix \o <<"+","1">>, WhatsappPrefix \o <<"+","2">>, <<"+","2">>}

\* let user_phone = from.replace("whatsapp:", "")
user_phone_of(from) == replace(from, WhatsappPrefix, <<>>)

Phones == {user_phone_of(f) : f \in Senders}

\* Request slots: the webhook requests in progress at the same time
Requests == {"r1", "r2"}

\* The HttpServer worker threads; each runs the requests it accepted, and the
\* tasks they spawn, one at a time on its own single-threaded runtime
Workers == {"w1", "w2"}

UserState ==
    {"Initial", "AccountCreation", "BankDetailsEntry", "OfframpConfirmation",
     "BankDetailsConfirmation", "SavedBankConfirmation"}

\* Saved bank accounts the backend can list (BankDetails)
BankA ==
    [bank_details_id |-> "id-A", bank_name |-> "Opay",
     account_number |-> "01234567890", account_name |-> "Ada"]

BankB ==
    [bank_details_id |-> "id-B", bank_name |-> "Kuda",
     account_number |-> "09876543210", account_name |-> "Ada"]

\* Verification results the backend can return (BankVerificationResponse)
VerifA ==
    [bank_name |-> "Opay", account_number |-> "01234567890",
     account_name |-> "Ada", bank_code |-> "999992"]

\* Variant: an inserted session that is not in the state Initial
NewSessionAwaitingName(user_phone) ==
    [phone |-> user_phone,
     state |-> "AccountCreation",
     account_id |-> NoneV,
     pending_amount |-> NoneV,
     pending_currency |-> NoneV,
     controller_address |-> NoneV,
     pending_bank_details |-> NoneV,
     pending_bank_verification |-> NoneV]

\* The session inserted for an identifier that has none
NewSession(user_phone) ==
    [phone |-> user_phone,
     state |-> "Initial",
     account_id |-> NoneV,
     pending_amount |-> NoneV,
     pending_currency |-> NoneV,
     controller_address |-> NoneV,
     pending_bank_details |-> NoneV,
     pending_bank_verification |-> NoneV]

\* Variant: a clearing that keeps the pending currency
clear_session_keeping_currency(session) ==
    [session EXCEPT !.state = "Initial",
                    !.pending_amount = NoneV,
                    !.pending_bank_verification = NoneV,
                    !.pending_bank_details = NoneV]

clear_session(session) ==
    [session EXCEPT !.state = "Initial",
                    !.pending_amount = NoneV,
                    !.pending_currency = NoneV,
                    !.pending_bank_verification = NoneV,
                    !.pending_bank_details = NoneV]

\* str::trim_start_matches on one character
RECURSIVE trim_start_matches(_, _)
trim_start_matches(s, c) ==
    IF s # <<>> /\ s[1] = c THEN trim_start_matches(Tail(s), c) ELSE s

\* session.phone.trim_start_matches("+"): the phone sent to the backend
formatted_phone(session) == trim_start_matches(session.phone, "+")

\* -------------------------------------------------- gateway calls, replies
\* A reply is [tag, arg]: the message template and the text spliced into it.
Reply(tag) == [tag |-> tag, arg |-> ""]

ReplyWith(tag, arg) == [tag |-> tag, arg |-> arg]

\* A call is [op, arg]: the endpoint and the arguments sent to it.
Call(op, arg) == [op |-> op, arg |-> arg]

\* A response is [kind, data]: "neterr" (the request failed), "status" (a
\* non-success status other than 404), "http404", "badjson" (a success status
\* whose body does not deserialize) or "ok" with the decoded data.
Resp(kind, data) == [kind |-> kind, data |-> data]

Failures == {Resp("neterr", <<>>), Resp("status", <<>>), Resp("http404", <<>>)}

Responses(op) ==
    CASE op = "get-address" ->
           Failures \cup {Resp("badjson", <<>>), Resp("ok", <<>>), Resp("ok", <<"0xC1">>)}
      [] op = "get-balance" ->
           Failures \cup {Resp("badjson", <<>>), Resp("ok", <<>>),
                          Resp("ok", <<<<"1", "2", ".", "5">>>>),
                          Resp("ok", <<<<"n", "/", "a">>>>)}
      [] op = "get-rate" ->
           Failures \cup {Resp("badjson", <<>>), Resp("ok", <<>>), Resp("ok", <<1500>>)}
      [] op = "verify-bank" ->
           Failures \cup {Resp("badjson", <<>>), Resp("ok", <<>>), Resp("ok", <<VerifA>>)}
      [] op = "list-saved-banks" ->
           Failures \cup {Resp("badjson", <<>>), Resp("ok", <<>>),
                          Resp("ok", <<BankA>>), Resp("ok", <<BankB, BankA>>)}
      [] op = "save-bank" ->
           Failures \cup {Resp("ok", <<>>)}
      [] op = "initiate-withdrawal" ->
           Failures \cup
           {Resp("badjson", <<>>),
            Resp("ok", <<[success |-> FALSE, reference |-> "ref1",
                          data |-> <<>>, error |-> <<"Insufficient balance">>]>>),
            Resp("ok", <<[success |-> FALSE, reference |-> "ref1",
                          data |-> <<>>, error |-> <<>>]>>),
            Resp("ok", <<[success |-> TRUE, reference |-> "ref1",
                          data |-> <<>>, error |-> <<>>]>>),
            Resp("ok", <<[success |-> TRUE, reference |-> "ref1",
                          data |-> <<[bank_name |-> "Opay", account_name |-> "Ada"]>>,
                          error |-> <<>>]>>)}
      [] op = "trigger-payment" ->
           Failures \cup {Resp("ok", <<>>)}
      [] op = "provision-account" ->
           Failures \cup {Resp("ok", <<>>)}
      [] op = "provision-controller" ->
           Failures \cup {Resp("badjson", <<>>), Resp("ok", <<"0xC1">>)}
      [] op = "send" ->
           {Resp("neterr", <<>>), Resp("status", <<>>), Resp("ok", <<>>)}
      [] op = "sleep" ->
           {Resp("ok", <<>>)}

\* ------------------------------------------------ handler step results
\* The locals a handler keeps across its await points
NoLocals ==
    [amount |-> NoneV, bank |-> NoneV, verification |-> NoneV, reference |-> NoneV,
     disbursement |-> NoneV]

\* The handler returned `msgs`
Return(session, msgs) ==
    [s |-> session, pc |-> "done", loc |-> NoLocals, out |-> msgs,
     call |-> NoneV, spawn |-> NoneV]

\* The handler issued `call` and is suspended at await point `pc`
Await(session, pc, loc, call) ==
    [s |-> session, pc |-> pc, loc |-> loc, out |-> <<>>,
     call |-> Some(call), spawn |-> NoneV]

\* The handler panicked (an unwrap of None)
Panic(session) ==
    [s |-> session, pc |-> "panic", loc |-> NoLocals, out |-> <<>>,
     call |-> NoneV, spawn |-> NoneV]

\* ---------------------------------------------------------- Result<T, String>
Ok(v) == [ok |-> TRUE, val |-> v]

Err(e) == [ok |-> FALSE, val |-> e]

ConnectError == "Failed to connect to server. Please try again."

\* ------------------------------------------------------- Initial: commands
W_hi == <<"h","i">>

W_hello == <<"h","e","l","l","o">>

W_start == <<"s","t","a","r","t">>

W_create == <<"c","r","e","a","t","e">>

W_address == <<"a","d","d","r","e","s","s">>

W_balance == <<"b","a","l","a","n","c","e">>

W_withdraw == <<"w","i","t","h","d","r","a","w">>

W_help == <<"h","e","l","p">>

W_confirm == <<"c","o","n","f","i","r","m">>

W_cancel == <<"c","a","n","c","e","l">>

W_yes == <<"y","e","s">>

W_no == <<"n","o">>

\* handle_commands up to its first await point
handle_commands(message, session) ==
    LET parts == split_whitespace(message)
        first == to_lowercase(parts[1])
    IN  IF parts = <<>> THEN Return(session, <<Reply("UnknownCommand")>>)
        ELSE IF contains(first, W_hi) \/ contains(first, W_hello) \/ contains(first, W_start)
        THEN Return(session, <<Reply("Welcome")>>)
        ELSE IF first = W_create
        THEN LET s1 == [session EXCEPT !.state = "AccountCreation"]
             IN  [Return(s1, <<>>) EXCEPT
                    !.spawn = Some([task |-> "create", message |-> message, session |-> s1])]
        ELSE IF first = W_address
        THEN Await(session, "get_address", NoLocals,
                   Call("get-address", <<formatted_phone(session)>>))
        ELSE IF first = W_balance
        THEN Await(session, "get_balance", NoLocals,
                   Call("get-balance", <<formatted_phone(session)>>))
        ELSE IF first = W_withdraw
        THEN IF Len(parts) >= 3
             THEN IF IsSome(parse_f64(parts[2]))
                  THEN LET amount == Unwrap(parse_f64(parts[2]))
                           crypto == to_uppercase(parts[3])
                           s1 == [session EXCEPT !.pending_amount = Some(amount),
                                                 !.pending_currency = Some(crypto)]
                       IN  Await(s1, "withdraw_initiation", NoLocals,
                                 Call("get-rate", <<>>))
                  ELSE Return(session, <<Reply("InvalidAmount")>>)
             ELSE Return(session, <<Reply("WithdrawFormat")>>)
        ELSE IF first = W_help
        THEN Return(session, <<Reply("Help")>>)
        ELSE Return(session, <<Reply("NotUnderstood")>>)

\* handle_get_address after the response
handle_get_address(session, resp) ==
    CASE resp.kind = "ok" /\ resp.data # <<>> ->
           Return(session, <<ReplyWith("Address", resp.data[1]), Reply("WalletAddressNote")>>)
      [] resp.kind = "ok" /\ resp.data = <<>> ->
           Return(session, <<Reply("NoWalletAddress")>>)
      [] resp.kind = "badjson" ->
           Return(session, <<Reply("FailedRetrieveAddress")>>)
      [] resp.kind = "http404" ->
           Return(session, <<Reply("NoAccountFound")>>)
      [] resp.kind = "status" ->
           Return(session, <<Reply("FailedRetrieveAddress")>>)
      [] resp.kind = "neterr" ->
           Return(session, <<ReplyWith("Failed", ConnectError)>>)

\* handle_get_balance after the response
handle_get_balance(session, resp) ==
    CASE resp.kind = "ok" /\ resp.data # <<>> ->
           IF IsSome(parse_f64(resp.data[1]))
           THEN Return(session, <<Reply("Balance")>>)
           ELSE Return(session, <<Reply("InvalidBalanceFormat")>>)
      [] resp.kind = "ok" /\ resp.data = <<>> ->
           Return(session, <<Reply("ZeroBalance")>>)
      [] resp.kind = "badjson" ->
           Return(session, <<Reply("FailedRetrieveBalance")>>)
      [] resp.kind = "http404" ->
           Return(session, <<Reply("NoAccountFound")>>)
      [] resp.kind = "status" ->
           Return(session, <<Reply("FailedRetrieveBalance")>>)
      [] resp.kind = "neterr" ->
           Return(session, <<ReplyWith("Failed", ConnectError)>>)

\* Variant: the amount is dropped when the confirmation is asked for
handle_withdraw_initiation_dropping(session, resp) ==
    CASE resp.kind = "ok" /\ resp.data # <<>> ->
           Return([session EXCEPT !.state = "OfframpConfirmation",
                                  !.pending_amount = NoneV],
                  <<Reply("WithdrawRequest")>>)
      [] resp.kind = "ok" /\ resp.data = <<>> ->
           Return(session, <<Reply("FailedExchangeRate")>>)
      [] resp.kind \in {"badjson", "http404", "status"} ->
           Return(session, <<Reply("FailedExchangeRate")>>)
      [] resp.kind = "neterr" ->
           Return(session, <<ReplyWith("Failed", ConnectError)>>)

\* Variant: with the rate known the bank details are asked for at once
handle_withdraw_initiation_to_entry(session, resp) ==
    CASE resp.kind = "ok" /\ resp.data # <<>> ->
           Return([session EXCEPT !.state = "BankDetailsEntry"],
                  <<Reply("WithdrawRequest")>>)
      [] resp.kind = "ok" /\ resp.data = <<>> ->
           Return(session, <<Reply("FailedExchangeRate")>>)
      [] resp.kind \in {"badjson", "http404", "status"} ->
           Return(session, <<Reply("FailedExchangeRate")>>)
      [] resp.kind = "neterr" ->
           Return(session, <<ReplyWith("Failed", ConnectError)>>)

\* handle_withdraw_initiation after the response of the rate endpoint
handle_withdraw_initiation(session, resp) ==
    CASE resp.kind = "ok" /\ resp.data # <<>> ->
           Return([session EXCEPT !.state = "OfframpConfirmation"],
                  <<Reply("WithdrawRequest")>>)
      [] resp.kind = "ok" /\ resp.data = <<>> ->
           Return(session, <<Reply("FailedExchangeRate")>>)
      [] resp.kind \in {"badjson", "http404", "status"} ->
           Return(session, <<Reply("FailedExchangeRate")>>)
      [] resp.kind = "neterr" ->
           Return(session, <<ReplyWith("Failed", ConnectError)>>)

\* ------------------------------------------------------- backend results
get_user_bank_details(resp) ==
    CASE resp.kind = "ok" -> Ok(resp.data)
      [] resp.kind = "badjson" -> Err("Failed to parse bank details. Please try again.")
      [] resp.kind = "http404" -> Ok(<<>>)
      [] resp.kind = "status" -> Err("Failed to retrieve bank details. Please try again.")
      [] resp.kind = "neterr" -> Err(ConnectError)

verify_bank_details(resp) ==
    CASE resp.kind = "ok" /\ resp.data # <<>> -> Ok(resp.data[1])
      [] resp.kind = "ok" /\ resp.data = <<>> ->
           Err("Invalid bank details received. Please try again.")
      [] resp.kind = "badjson" -> Err("Failed to verify bank details. Please try again.")
      [] resp.kind = "http404" ->
           Err("Account not found. Please check your details and try again.")
      [] resp.kind = "status" -> Err("Verification failed: 500")
      [] resp.kind = "neterr" -> Err(ConnectError)

save_bank_details_to_db(resp) ==
    CASE resp.kind = "ok" -> Ok(<<>>)
      [] resp.kind \in {"http404", "status"} ->
           Err("Failed to save bank details. Please try again.")
      [] resp.kind = "neterr" -> Err(ConnectError)

trigger_payment(resp) ==
    CASE resp.kind = "ok" -> Ok(<<>>)
      [] resp.kind \in {"http404", "status"} ->
           Err("Payment confirmation failed. Please contact support.")
      [] resp.kind = "neterr" ->
           Err("Failed to connect to payment server. Please try again.")

\* ---------------------------------------------------- withdrawal execution
\* execute_offramp, Err(err) branch: the failure text is replied
execute_offramp_failed(session, err) ==
    Return(session, <<ReplyWith("WithdrawalFailed", err)>>)

\* execute_offramp up to the first await of initiate_offramp_process
execute_offramp(session, bank_details) ==
    IF session.pending_amount = NoneV
    THEN Panic(session)
    ELSE IF session.pending_currency = NoneV
    THEN execute_offramp_failed(session, "Missing pending currency in session")
    ELSE Await(session, "offramp_init",
               [NoLocals EXCEPT !.amount = session.pending_amount,
                                !.bank = Some(bank_details)],
               Call("initiate-withdrawal",
                    [phone |-> formatted_phone(session),
                     amount |-> Unwrap(session.pending_amount),
                     token_symbol |-> Unwrap(session.pending_currency),
                     bank_account_id |-> bank_details.bank_details_id]))

\* initiate_offramp_process after the response of the initiation endpoint
initiate_offramp_process(session, loc, resp) ==
    CASE resp.kind = "ok" ->
           LET init_response == resp.data[1] IN
           IF ~init_response.success
           THEN execute_offramp_failed(session,
                   IF init_response.error # <<>> THEN init_response.error[1]
                   ELSE "Offramp initialization failed due to unknown error.")
           ELSE IF init_response.data = <<>>
           THEN execute_offramp_failed(session,
                   "Missing disbursement details in successful response.")
           ELSE Await(session, "offramp_trigger",
                      [loc EXCEPT !.reference = Some(init_response.reference),
                                  !.disbursement = init_response.data],
                      Call("trigger-payment",
                           [amount |-> Unwrap(loc.amount),
                            reference |-> init_response.reference,
                            phone |-> formatted_phone(session)]))
      [] resp.kind = "badjson" ->
           execute_offramp_failed(session, "Invalid response from server. Try again.")
      [] resp.kind \in {"http404", "status"} ->
           execute_offramp_failed(session,
              "Failed to initiate withdrawal. Please try again, contact support if error persists.")
      [] resp.kind = "neterr" ->
           execute_offramp_failed(session, ConnectError)

\* Variant: a successful trigger that starts no poller and keeps the session
offramp_triggered_only(session, loc, resp) ==
    LET r == trigger_payment(resp) IN
    IF r.ok
    THEN Return(session, <<Reply("WithdrawalSubmitted")>>)
    ELSE execute_offramp_failed(session, r.val)

\* Variant: the poller is started whatever trigger_payment returned
offramp_triggered_spawning(session, loc, resp) ==
    LET r == trigger_payment(resp)
        task == [task |-> "poll",
                 reference |-> Unwrap(loc.reference),
                 user_phone |-> formatted_phone(session),
                 bank_name |-> Unwrap(loc.disbursement).bank_name,
                 account_name |-> Unwrap(loc.disbursement).account_name]
    IN  IF r.ok
        THEN [Return(clear_session(session), <<Reply("WithdrawalSubmitted")>>) EXCEPT
                !.spawn = Some(task)]
        ELSE [execute_offramp_failed(session, r.val) EXCEPT !.spawn = Some(task)]

\* initiate_offramp_process after trigger_payment, then the rest of
\* execute_offramp: the poller is spawned and the session cleared on success
offramp_triggered(session, loc, resp) ==
    LET r == trigger_payment(resp) IN
    IF r.ok
    THEN [Return(clear_session(session), <<Reply("WithdrawalSubmitted")>>) EXCEPT
            !.spawn = Some([task |-> "poll",
                            reference |-> Unwrap(loc.reference),
                            user_phone |-> formatted_phone(session),
                            bank_name |-> Unwrap(loc.disbursement).bank_name,
                            account_name |-> Unwrap(loc.disbursement).account_name])]
    ELSE execute_offramp_failed(session, r.val)

\* ------------------------------------------------------ OfframpConfirmation
handle_offramp_confirmation(message, session) ==
    LET m == to_lowercase(message) IN
    IF m = W_confirm
    THEN Await(session, "offramp_banks", NoLocals,
               Call("list-saved-banks", <<formatted_phone(session)>>))
    ELSE IF m = W_cancel
    THEN Return(clear_session(session), <<Reply("WithdrawalCancelled")>>)
    ELSE Return(session, <<Reply("ConfirmOrCancel")>>)

\* Variant: the last saved account is selected instead of the first
offramp_banks_listed_last(session, resp) ==
    LET r == get_user_bank_details(resp) IN
    IF r.ok
    THEN IF r.val # <<>>
         THEN Return([session EXCEPT !.pending_bank_details = Some(r.val[Len(r.val)]),
                                     !.state = "SavedBankConfirmation"],
                     <<Reply("SavedBankDetails")>>)
         ELSE Return([session EXCEPT !.state = "BankDetailsEntry"],
                     <<Reply("BankDetailsRequired")>>)
    ELSE Return(session, <<ReplyWith("FailedCheckBankDetails", r.val)>>)

\* handle_offramp_confirmation after get_user_bank_details
offramp_banks_listed(session, resp) ==
    LET r == get_user_bank_details(resp) IN
    IF r.ok
    THEN IF r.val # <<>>
         THEN Return([session EXCEPT !.pending_bank_details = Some(r.val[1]),
                                     !.state = "SavedBankConfirmation"],
                     <<Reply("SavedBankDetails")>>)
         ELSE Return([session EXCEPT !.state = "BankDetailsEntry"],
                     <<Reply("BankDetailsRequired")>>)
    ELSE Return(session, <<ReplyWith("FailedCheckBankDetails", r.val)>>)

\* --------------------------------------------------------- BankDetailsEntry
handle_new_bank_details_entry(message, session) ==
    LET raw   == split(message, {","})
        parts == [i \in 1..Len(raw) |-> trim(raw[i])]
        bank_name == parts[1]
        account_number == parts[2]
    IN  IF Len(parts) # 2
        THEN Return(session, <<Reply("InvalidBankFormat")>>)
        ELSE IF \/ len(account_number) < 10
                \/ ~(\A i \in 1..Len(account_number) : is_numeric(account_number[i]))
        THEN Return(session, <<Reply("InvalidAccountNumber")>>)
        ELSE Await(session, "bank_verify", NoLocals,
                   Call("verify-bank",
                        [phone |-> formatted_phone(session),
                         bank_name |-> bank_name,
                         account_number |-> account_number]))

\* Variant: the verification is stored without leaving BankDetailsEntry
bank_verified_in_entry(session, resp) ==
    LET r == verify_bank_details(resp) IN
    IF r.ok
    THEN Return([session EXCEPT !.pending_bank_verification = Some(r.val)],
                <<Reply("AccountVerified")>>)
    ELSE Return(session, <<ReplyWith("VerificationFailed", r.val)>>)

\* Variant: a failed verification clears the session
bank_verified_or_cleared(session, resp) ==
    LET r == verify_bank_details(resp) IN
    IF r.ok
    THEN Return([session EXCEPT !.pending_bank_verification = Some(r.val),
                                !.state = "BankDetailsConfirmation"],
                <<Reply("AccountVerified")>>)
    ELSE Return(clear_session(session), <<ReplyWith("VerificationFailed", r.val)>>)

\* handle_new_bank_details_entry after verify_bank_details
bank_verified(session, resp) ==
    LET r == verify_bank_details(resp) IN
    IF r.ok
    THEN Return([session EXCEPT !.pending_bank_verification = Some(r.val),
                                !.state = "BankDetailsConfirmation"],
                <<Reply("AccountVerified")>>)
    ELSE Return(session, <<ReplyWith("VerificationFailed", r.val)>>)

\* ---------------------------------------------------- SavedBankConfirmation
handle_saved_bank_confirmation(message, session) ==
    LET m == to_lowercase(message) IN
    IF m = W_yes
    THEN IF session.pending_bank_details = NoneV
         THEN Return(session, <<Reply("BankDetailsNotFound")>>)
         ELSE execute_offramp(session, Unwrap(session.pending_bank_details))
    ELSE IF m = W_no
    THEN Return(clear_session(session), <<Reply("WithdrawalCancelled")>>)
    ELSE Return(session, <<Reply("YesOrNoCancel")>>)

\* -------------------------------------------------- BankDetailsConfirmation
handle_new_bank_confirmation(message, session) ==
    LET m == to_lowercase(message) IN
    IF m = W_yes
    THEN IF session.pending_bank_verification = NoneV
         THEN Return(session, <<Reply("VerificationNotFound")>>)
         ELSE Await(session, "bank_save",
                    [NoLocals EXCEPT !.verification = session.pending_bank_verification],
                    Call("save-bank",
                         [phone |-> formatted_phone(session),
                          verification |-> Unwrap(session.pending_bank_verification)]))
    ELSE IF m = W_no
    THEN Return([session EXCEPT !.state = "BankDetailsEntry",
                                !.pending_bank_verification = NoneV],
                <<Reply("ReenterBankDetails")>>)
    ELSE Return(session, <<Reply("YesOrNoReenter")>>)

\* handle_new_bank_confirmation after save_bank_details_to_db
bank_saved(session, loc, resp) ==
    LET r == save_bank_details_to_db(resp) IN
    IF r.ok
    THEN Await(session, "bank_relist", loc,
               Call("list-saved-banks", <<formatted_phone(session)>>))
    ELSE Return(session, <<ReplyWith("FailedSaveBankDetails", r.val)>>)

\* handle_new_bank_confirmation after the second get_user_bank_details
bank_relisted(session, resp) ==
    LET r == get_user_bank_details(resp) IN
    IF r.ok
    THEN IF r.val # <<>>
         THEN execute_offramp([session EXCEPT !.pending_bank_verification = NoneV],
                              r.val[1])
         ELSE Return(session, <<Reply("SavedBankListEmpty")>>)
    ELSE Return(session, <<ReplyWith("ErrorRetrievingBankDetails", r.val)>>)

\* ---------------------------------------------------------- AccountCreation
AccountCreationFailed == "Account creation failed. Please try again."

\* handle_account_creation up to its first await: the "creating" notice
handle_account_creation(message, session) ==
    Await(session, "ac_notice", NoLocals,
          Call("send", [to |-> formatted_phone(session), body |-> Reply("CreatingAccount")]))

\* Variant: the address is stored but the state stays AccountCreation
account_creation_resumed_staying(pc, message, session, resp) ==
    CASE pc = "ac_notice" ->
           Await(session, "ac_create", NoLocals,
                 Call("provision-account",
                      [username |-> message, phone |-> formatted_phone(session)]))
      [] pc = "ac_create" ->
           IF resp.kind = "ok"
           THEN Await(session, "ac_controller", NoLocals,
                      Call("provision-controller",
                           [username |-> message, phone |-> formatted_phone(session)]))
           ELSE Return(session, <<ReplyWith("Failed", AccountCreationFailed)>>)
      [] pc = "ac_controller" ->
           (CASE resp.kind = "ok" ->
                  LET controller_address == resp.data[1] IN
                  Await([session EXCEPT !.controller_address = Some(controller_address)],
                        "ac_address", NoLocals,
                        Call("send", [to |-> formatted_phone(session),
                                      body |-> ReplyWith("Address", controller_address)]))
             [] resp.kind = "badjson" ->
                  Return(session, <<Reply("AccountCreationFailedControllerSetup")>>)
             [] resp.kind \in {"http404", "status"} ->
                  Return(session, <<Reply("AccountCreationFailedContactSupport")>>)
             [] resp.kind = "neterr" ->
                  Return(session, <<ReplyWith("Failed", AccountCreationFailed)>>))
      [] pc = "ac_address" ->
           Await(session, "ac_sleep", NoLocals, Call("sleep", 800))
      [] pc = "ac_sleep" ->
           Await(session, "ac_success", NoLocals,
                 Call("send", [to |-> formatted_phone(session),
                               body |-> Reply("AccountCreated")]))
      [] pc = "ac_success" ->
           Return(session, <<>>)

\* handle_account_creation from one of its await points
account_creation_resumed(pc, message, session, resp) ==
    CASE pc = "ac_notice" ->
           Await(session, "ac_create", NoLocals,
                 Call("provision-account",
                      [username |-> message, phone |-> formatted_phone(session)]))
      [] pc = "ac_create" ->
           IF resp.kind = "ok"
           THEN Await(session, "ac_controller", NoLocals,
                      Call("provision-controller",
                           [username |-> message, phone |-> formatted_phone(session)]))
           ELSE Return(session, <<ReplyWith("Failed", AccountCreationFailed)>>)
      [] pc = "ac_controller" ->
           (CASE resp.kind = "ok" ->
                  LET controller_address == resp.data[1] IN
                  Await([session EXCEPT !.controller_address = Some(controller_address),
                                        !.state = "Initial"],
                        "ac_address", NoLocals,
                        Call("send", [to |-> formatted_phone(session),
                                      body |-> ReplyWith("Address", controller_address)]))
             [] resp.kind = "badjson" ->
                  Return(session, <<Reply("AccountCreationFailedControllerSetup")>>)
             [] resp.kind \in {"http404", "status"} ->
                  Return(session, <<Reply("AccountCreationFailedContactSupport")>>)
             [] resp.kind = "neterr" ->
                  Return(session, <<ReplyWith("Failed", AccountCreationFailed)>>))
      [] pc = "ac_address" ->
           Await(session, "ac_sleep", NoLocals, Call("sleep", 800))
      [] pc = "ac_sleep" ->
           Await(session, "ac_success", NoLocals,
                 Call("send", [to |-> formatted_phone(session),
                               body |-> Reply("AccountCreated")]))
      [] pc = "ac_success" ->
           Return(session, <<>>)

AccountCreationPcs ==
    {"ac_notice", "ac_create", "ac_controller", "ac_address", "ac_sleep", "ac_success"}

\* --------------------------------------------------------------- dispatch
\* handle_message, the match on session.state: the handler up to its first
\* await point
Dispatch(message, session) ==
    CASE session.state = "Initial" -> handle_commands(message, session)
      [] session.state = "AccountCreation" -> handle_account_creation(message, session)
      [] session.state = "OfframpConfirmation" ->
           handle_offramp_confirmation(message, session)
      [] session.state = "SavedBankConfirmation" ->
           handle_saved_bank_confirmation(message, session)
      [] session.state = "BankDetailsEntry" ->
           handle_new_bank_details_entry(message, session)
      [] session.state = "BankDetailsConfirmation" ->
           handle_new_bank_confirmation(message, session)

\* A handler suspended at `pc` is resumed with the response `resp`
Resume(pc, message, loc, session, resp) ==
    CASE pc = "get_address" -> handle_get_address(session, resp)
      [] pc = "get_balance" -> handle_get_balance(session, resp)
      [] pc = "withdraw_initiation" -> handle_withdraw_initiation(session, resp)
      [] pc = "offramp_banks" -> offramp_banks_listed(session, resp)
      [] pc = "bank_verify" -> bank_verified(session, resp)
      [] pc = "bank_save" -> bank_saved(session, loc, resp)
      [] pc = "bank_relist" -> bank_relisted(session, resp)
      [] pc = "offramp_init" -> initiate_offramp_process(session, loc, resp)
      [] pc = "offramp_trigger" -> offramp_triggered(session, loc, resp)
      [] pc \in AccountCreationPcs -> account_creation_resumed(pc, message, session, resp)

HandlerPcs ==
    {"get_address", "get_balance", "withdraw_initiation", "offramp_banks", "bank_verify",
     "bank_save", "bank_relist", "offramp_init", "offramp_trigger"} \cup AccountCreationPcs

\* The whole handler on `session` for `message` when the backend answers
\* `resps` in that order: the session it leaves
RECURSIVE RunFrom(_, _, _)
RunFrom(step, message, resps) ==
    IF step.pc \in HandlerPcs /\ resps # <<>>
    THEN RunFrom(Resume(step.pc, message, step.loc, step.s, resps[1]), message, Tail(resps))
    ELSE step

Handle(message, session, resps) == RunFrom(Dispatch(message, session), message, resps).s

\* ================================================================ state
VARIABLES
    sessions,    \* SessionMap: user phone -> Option<UserSessions>
    lock,        \* the Mutex around the SessionMap: the request holding the guard
    poisoned,    \* the Mutex is poisoned (a holder panicked)
    req,         \* the webhook request served in each slot
    detached,    \* the tasks spawned by `create`, each with its session copy
    spawned,     \* the polling tasks started, in order
    initCalls,   \* per phone: disbursement-initiation calls issued so far
    ledger,      \* history, per phone: what became of the initiation calls
    delivered,   \* webhook deliveries accepted so far
    serial,      \* history: the handlers run one after another, in lock order
    happy,       \* history: progress of each phone along the end-to-end path
    poll         \* one polling task (poll_and_notify_on_completion)

vars ==
    <<sessions, lock, poisoned, req, detached, spawned, initCalls, ledger,
      delivered, serial, happy, poll>>

\* A request slot: where the request is (pc), its arguments and locals, the
\* call it awaits, the replies to send, the response returned (ack), and as
\* history of the dispatch: the session found (snap) and left (after), the
\* responses received, the calls issued, whether it waited for the lock and
\* whether it inserted the session, and the delivery it serves (form)
IdleReq ==
    [pc |-> "idle", phone |-> <<>>, msg |-> <<>>, loc |-> NoLocals, call |-> NoneV,
     outbox |-> <<>>, sent |-> 0, resps |-> <<>>, calls |-> <<>>, snap |-> NoneV,
     after |-> NoneV, ack |-> NoneV, wkr |-> "", waited |-> FALSE, created |-> FALSE,
     form |-> NoneV]

NoTask == [pc |-> "none", msg |-> <<>>, session |-> NoneV, call |-> NoneV, wkr |-> ""]

\* The polling task: its arguments and locals, and as history the responses
\* it has received (how many, the kinds of those that did not end it, the
\* first terminal status as the backend spelled it)
IdlePoll ==
    [pc |-> "none", max_wait_minutes |-> 0, max_attempts |-> 0, attempts |-> 0,
     sent |-> <<>>, result |-> NoneV, answered |-> 0, mix |-> {},
     terminal |-> NoneV]

\* The tasks spawned by `create` that are alive at the same time
DetachedSlots == {"d1"}

\* The slots are interchangeable: a new request takes the first free one
SlotOrder == [r \in Requests |-> IF r = "r1" THEN 1 ELSE 2]

\* ------------------------------------------------------ webhook envelope
BotNumber ==
    WhatsappPrefix \o <<"+","9">>

EmptyAck == [status |-> 200, body |-> "<Response></Response>"]

StatusValues == {"delivered", "read", "sent", "failed", "undelivered"}

\* form_data.get("SmsStatus").or(form_data.get("MessageStatus"))
StatusOf(form) == IF form.SmsStatus # NoneV THEN form.SmsStatus ELSE form.MessageStatus

\* Variant: only a body of no characters counts as empty
ScreenUntrimmed(form) ==
    IF StatusOf(form) # NoneV /\ Unwrap(StatusOf(form)) \in StatusValues
    THEN Some(EmptyAck)
    ELSE IF form.From = NoneV
    THEN Some([status |-> 400, body |-> "Missing 'From' field"])
    ELSE IF (IF form.Body = NoneV THEN <<>> ELSE Unwrap(form.Body)) = <<>>
    THEN Some(EmptyAck)
    ELSE IF replace(user_phone_of(Unwrap(form.From)), <<"+">>, <<>>)
            = replace(replace(BotNumber, WhatsappPrefix, <<>>), <<"+">>, <<>>)
    THEN Some(EmptyAck)
    ELSE NoneV

\* handle_twilio_webhook up to the call of handle_message: the response it
\* returns at once, or NoneV when the delivery is handed to handle_message
Screen(form) ==
    IF StatusOf(form) # NoneV /\ Unwrap(StatusOf(form)) \in StatusValues
    THEN Some(EmptyAck)
    ELSE IF form.From = NoneV
    THEN Some([status |-> 400, body |-> "Missing 'From' field"])
    ELSE IF trim(IF form.Body = NoneV THEN <<>> ELSE Unwrap(form.Body)) = <<>>
    THEN Some(EmptyAck)
    ELSE IF replace(user_phone_of(Unwrap(form.From)), <<"+">>, <<>>)
            = replace(replace(BotNumber, WhatsappPrefix, <<>>), <<"+">>, <<>>)
    THEN Some(EmptyAck)
    ELSE NoneV

Form(from, body) ==
    [From |-> Some(from), Body |-> Some(body), SmsStatus |-> NoneV, MessageStatus |-> NoneV]

\* ------------------------------------------------------------- scheduling
\* Variant: a lock() that never waits for the holder
LockFreeAlways == TRUE

LockFree == lock = NoneV

\* A worker thread runs its tasks one at a time; a task inside
\* Mutex::lock() keeps the thread until the lock is granted
ThreadRuns(w) == \A u \in Requests : req[u].wkr = w => req[u].pc # "blocked"

SessionOf(map, p) == IF map[p] = NoneV THEN NewSession(p) ELSE Unwrap(map[p])

FreeSlots == {b \in DetachedSlots : detached[b].pc = "none"}

\* -------------------------------------------------------------- backend
\* The references the backend gives to the initiated withdrawals, in order
References == <<"ref1", "ref2", "ref3", "ref4", "ref5", "ref6", "ref7", "ref8">>

RECURSIVE Total(_, _)
Total(f, S) ==
    IF S = {} THEN 0
    ELSE LET x == CHOOSE y \in S : TRUE IN f[x] + Total(f, S \ {x})

\* The response as the backend gives it: every initiation answered with a
\* reference has a reference of its own
Stamped(op, resp) ==
    IF op = "initiate-withdrawal" /\ resp.kind = "ok"
    THEN [resp EXCEPT !.data[1].reference = References[Total(initCalls, Phones)]]
    ELSE resp

\* ------------------------------------------------------- history helpers
\* Per phone: the initiation calls issued since the last `withdraw` that was
\* accepted in Initial, those answered with success, the payments triggered
NoLedger == [sinceWithdraw |-> 0, initOk |-> 0, paid |-> 0]

\* The ledger of phone p after a step of the handler: `cur` is the request
\* before the step, `step` what the handler did, `resps1` the responses so far
Booked(entry, cur, step, snap, resps1) ==
    LET answered == cur.pc \in HandlerPcs
        op   == IF answered THEN Unwrap(cur.call).op ELSE ""
        last == resps1[Len(resps1)]
        isInit == step.call # NoneV /\ Unwrap(step.call).op = "initiate-withdrawal"
        accepted == /\ step.pc = "done"
                    /\ snap.state = "Initial"
                    /\ step.s.state = "OfframpConfirmation"
    IN  [sinceWithdraw |-> IF accepted THEN 0
                           ELSE IF isInit THEN entry.sinceWithdraw + 1
                           ELSE entry.sinceWithdraw,
         initOk |-> IF /\ op = "initiate-withdrawal"
                       /\ last.kind = "ok" /\ last.data[1].success
                    THEN entry.initOk + 1 ELSE entry.initOk,
         paid |-> IF op = "trigger-payment" /\ last.kind = "ok"
                  THEN entry.paid + 1 ELSE entry.paid]

HappyMessages ==
    <<M_withdraw_10_USDT, M_confirm, M_bank_ok, M_yes>>

HappyStage(n, message, resps) ==
    /\ n \in 0..3
    /\ message = HappyMessages[n + 1]
    /\ CASE n = 0 -> Len(resps) = 1 /\ resps[1].kind = "ok" /\ resps[1].data # <<>>
         [] n = 1 -> /\ Len(resps) = 1
                     /\ get_user_bank_details(resps[1]).ok
                     /\ get_user_bank_details(resps[1]).val = <<>>
         [] n = 2 -> Len(resps) = 1 /\ verify_bank_details(resps[1]).ok
         [] n = 3 -> /\ Len(resps) = 4
                     /\ resps[1].kind = "ok"
                     /\ resps[2].kind = "ok" /\ resps[2].data # <<>>
                     /\ resps[3].kind = "ok"
                     /\ resps[3].data[1].success /\ resps[3].data[1].data # <<>>
                     /\ resps[4].kind = "ok"

\* ---------------------------------------------------------------- actions
\* Request r, holding the lock for phone p, has run its handler up to `step`
\* (an await point, a return or a panic) after the responses `resps1`.
\* On return the guard is dropped and the first reply is handed to Twilio.
Advance(r, cur, p, message, step, snap, resps1) ==
    LET issued == IF step.call = NoneV THEN cur.calls
                  ELSE Append(cur.calls, Unwrap(step.call))
        base   == [cur EXCEPT !.phone = p, !.msg = message, !.snap = Some(snap),
                                 !.resps = resps1, !.calls = issued, !.loc = step.loc]
        isInit == step.call # NoneV /\ Unwrap(step.call).op = "initiate-withdrawal"
        create == step.spawn # NoneV /\ Unwrap(step.spawn).task = "create"
        poller == step.spawn # NoneV /\ Unwrap(step.spawn).task = "poll"
    IN  /\ create => FreeSlots # {}
        /\ sessions' = [sessions EXCEPT ![p] = Some(step.s)]
        /\ initCalls' = IF isInit THEN [initCalls EXCEPT ![p] = @ + 1] ELSE initCalls
        /\ ledger' = [ledger EXCEPT ![p] = Booked(@, cur, step, snap, resps1)]
        /\ spawned' = IF poller THEN Append(spawned, Unwrap(step.spawn)) ELSE spawned
        /\ detached' =
             IF create
             THEN [detached EXCEPT ![CHOOSE b \in FreeSlots : TRUE] =
                     [pc |-> "spawned", msg |-> Unwrap(step.spawn).message,
                      session |-> Some(Unwrap(step.spawn).session), call |-> NoneV,
                      wkr |-> cur.wkr]]
             ELSE detached
        /\ CASE step.pc = "done" ->
                  /\ lock' = NoneV
                  /\ poisoned' = poisoned
                  /\ serial' = [serial EXCEPT
                                  ![p] = Some(Handle(message, SessionOf(serial, p), resps1))]
                  /\ happy' = [happy EXCEPT
                                 ![p] = IF HappyStage(@, message, resps1) THEN @ + 1 ELSE 9]
                  /\ req' = [req EXCEPT ![r] =
                               IF step.out = <<>>
                               THEN [base EXCEPT !.pc = "respond", !.call = NoneV,
                                                 !.after = Some(step.s),
                                                 !.ack = Some(EmptyAck)]
                               ELSE [base EXCEPT !.pc = "send", !.outbox = step.out,
                                                 !.sent = 1, !.after = Some(step.s),
                                                 !.call = Some(Call("send",
                                                    [to |-> p, body |-> step.out[1]]))]]
             [] step.pc = "panic" ->
                  /\ lock' = NoneV
                  /\ poisoned' = TRUE
                  /\ serial' = [serial EXCEPT ![p] = Some(step.s)]
                  /\ happy' = [happy EXCEPT ![p] = 9]
                  /\ req' = [req EXCEPT ![r] =
                               [base EXCEPT !.pc = "respond", !.call = NoneV,
                                            !.after = Some(step.s), !.ack = NoneV]]
             [] OTHER ->
                  /\ lock' = Some(r)
                  /\ UNCHANGED <<poisoned, serial, happy>>
                  /\ req' = [req EXCEPT ![r] =
                               [base EXCEPT !.pc = step.pc, !.call = step.call]]

\* handle_message from sessions.lock() to the handler's first await point
Enter(r, cur, p, message) ==
    IF poisoned
    THEN \* sessions.lock().unwrap() panics: the request ends without a reply
         /\ req' = [req EXCEPT ![r] = [cur EXCEPT !.pc = "respond", !.phone = p,
                                                  !.msg = message]]
         /\ UNCHANGED <<sessions, lock, poisoned, detached, spawned, initCalls, ledger,
                        serial, happy>>
    ELSE LET session == SessionOf(sessions, p)
         IN  Advance(r, [cur EXCEPT !.created = (sessions[p] = NoneV)], p, message,
                     Dispatch(message, session), session, <<>>)

\* handle_twilio_webhook: a delivery reaches slot r on worker thread w, while
\* fewer than `budget` deliveries have been accepted
Webhook(r, w, form, budget) ==
    /\ req[r].pc = "idle"
    /\ \A u \in Requests : req[u].pc = "idle" => SlotOrder[r] <= SlotOrder[u]
    /\ ThreadRuns(w)
    /\ delivered < budget
    /\ delivered' = delivered + 1
    /\ UNCHANGED poll
    /\ IF Screen(form) # NoneV
       THEN /\ req' = [req EXCEPT ![r] = [IdleReq EXCEPT !.pc = "respond",
                                                         !.ack = Screen(form),
                                                         !.form = Some(form)]]
            /\ UNCHANGED <<sessions, lock, poisoned, detached, spawned, initCalls, ledger,
                           serial, happy>>
       ELSE LET p == user_phone_of(Unwrap(form.From))
                message == Unwrap(form.Body)
            IN  IF LockFree
                THEN Enter(r, [IdleReq EXCEPT !.wkr = w, !.form = Some(form)], p, message)
                ELSE /\ req' = [req EXCEPT ![r] = [IdleReq EXCEPT !.pc = "blocked",
                                                                  !.phone = p,
                                                                  !.wkr = w,
                                                                  !.msg = message,
                                                                  !.form = Some(form)]]
                     /\ UNCHANGED <<sessions, lock, poisoned, detached, spawned,
                                    initCalls, ledger, serial, happy>>

\* Mutex::lock() returns in a request that was waiting for the guard
Acquire(r) ==
    /\ req[r].pc = "blocked"
    /\ LockFree
    /\ Enter(r, [req[r] EXCEPT !.waited = TRUE], req[r].phone, req[r].msg)
    /\ UNCHANGED <<delivered, poll>>

\* The backend (or, in AccountCreation, Twilio or the timer) answers the call
\* the handler of r is waiting for; the handler runs to its next await point
GatewayReturn(r, kinds) ==
    /\ req[r].pc \in HandlerPcs
    /\ ThreadRuns(req[r].wkr)
    /\ \E x \in {y \in Responses(Unwrap(req[r].call).op) : y.kind \in kinds} :
          LET p == req[r].phone
              session == SessionOf(sessions, p)
              resp == Stamped(Unwrap(req[r].call).op, x)
          IN  Advance(r, req[r], p, req[r].msg,
                      Resume(req[r].pc, req[r].msg, req[r].loc, session, resp),
                      Unwrap(req[r].snap), Append(req[r].resps, resp))
    /\ UNCHANGED <<delivered, poll>>

\* Variant: after the last reply the request ends with a server error
SendReturnFailing(r) ==
    /\ req[r].pc = "send"
    /\ ThreadRuns(req[r].wkr)
    /\ req' = [req EXCEPT ![r] =
                 IF req[r].sent < Len(req[r].outbox)
                 THEN [@ EXCEPT !.pc = "delay", !.call = Some(Call("sleep", 1000))]
                 ELSE [@ EXCEPT !.pc = "respond", !.call = NoneV,
                                !.ack = Some([status |-> 500, body |-> ""])]]
    /\ UNCHANGED <<sessions, lock, poisoned, detached, spawned, initCalls, ledger, delivered,
                   serial, happy, poll>>

\* send_twilio_message returns in the reply loop of handle_message
SendReturn(r) ==
    /\ req[r].pc = "send"
    /\ ThreadRuns(req[r].wkr)
    /\ req' = [req EXCEPT ![r] =
                 IF req[r].sent < Len(req[r].outbox)
                 THEN [@ EXCEPT !.pc = "delay", !.call = Some(Call("sleep", 1000))]
                 ELSE [@ EXCEPT !.pc = "respond", !.call = NoneV,
                                !.ack = Some(EmptyAck)]]
    /\ UNCHANGED <<sessions, lock, poisoned, detached, spawned, initCalls, ledger, delivered,
                   serial, happy, poll>>

\* the delay between two replies has elapsed: the next reply is sent
DelayReturn(r) ==
    /\ req[r].pc = "delay"
    /\ ThreadRuns(req[r].wkr)
    /\ req' = [req EXCEPT ![r] =
                 [@ EXCEPT !.pc = "send", !.sent = @ + 1,
                           !.call = Some(Call("send",
                              [to |-> req[r].phone,
                               body |-> req[r].outbox[req[r].sent + 1]]))]]
    /\ UNCHANGED <<sessions, lock, poisoned, detached, spawned, initCalls, ledger, delivered,
                   serial, happy, poll>>

\* handle_twilio_webhook returns its response; the slot is free again
Respond(r) ==
    /\ req[r].pc = "respond"
    /\ ThreadRuns(req[r].wkr)
    /\ req' = [req EXCEPT ![r] = IdleReq]
    /\ UNCHANGED <<sessions, lock, poisoned, detached, spawned, initCalls, ledger, delivered,
                   serial, happy, poll>>

\* ------------------------------------------- the task spawned by `create`
\* First poll of the spawned future: handle_account_creation on the copy
DetachedStart(b) ==
    /\ detached[b].pc = "spawned"
    /\ ThreadRuns(detached[b].wkr)
    /\ LET step == handle_account_creation(detached[b].msg, Unwrap(detached[b].session))
       IN  detached' = [detached EXCEPT ![b] =
                          [@ EXCEPT !.pc = step.pc, !.session = Some(step.s),
                                    !.call = step.call]]
    /\ UNCHANGED <<sessions, lock, poisoned, req, spawned, initCalls, ledger, delivered,
                   serial, happy, poll>>

\* Variant: the finished task writes its session copy back to the store
DetachedReturnWriting(b, kinds) ==
    /\ detached[b].pc \in AccountCreationPcs
    /\ ThreadRuns(detached[b].wkr)
    /\ \E resp \in {x \in Responses(Unwrap(detached[b].call).op) : x.kind \in kinds} :
          LET step == account_creation_resumed(detached[b].pc, detached[b].msg,
                                               Unwrap(detached[b].session), resp)
          IN  /\ detached' = [detached EXCEPT ![b] =
                                IF step.pc = "done" THEN NoTask
                                ELSE [@ EXCEPT !.pc = step.pc, !.session = Some(step.s),
                                               !.call = step.call]]
              /\ sessions' = IF step.pc = "done"
                             THEN [sessions EXCEPT ![step.s.phone] = Some(step.s)]
                             ELSE sessions
    /\ UNCHANGED <<lock, poisoned, req, spawned, initCalls, ledger, delivered,
                   serial, happy, poll>>

\* A call of the spawned handle_account_creation returns; what the handler
\* finally returns is dropped (`let _ =`) together with the session copy
DetachedReturn(b, kinds) ==
    /\ detached[b].pc \in AccountCreationPcs
    /\ ThreadRuns(detached[b].wkr)
    /\ \E resp \in {x \in Responses(Unwrap(detached[b].call).op) : x.kind \in kinds} :
          LET step == account_creation_resumed(detached[b].pc, detached[b].msg,
                                               Unwrap(detached[b].session), resp)
          IN  detached' = [detached EXCEPT ![b] =
                             IF step.pc = "done" THEN NoTask
                             ELSE [@ EXCEPT !.pc = step.pc, !.session = Some(step.s),
                                            !.call = step.call]]
    /\ UNCHANGED <<sessions, lock, poisoned, req, spawned, initCalls, ledger, delivered,
                   serial, happy, poll>>

\* ----------------------------------------- poll_and_notify_on_completion
S_pending == <<"p","e","n","d","i","n","g">>

S_completed == <<"c","o","m","p","l","e","t","e","d">>

S_Successful == <<"S","u","c","c","e","s","s","f","u","l">>

S_failed == <<"f","a","i","l","e","d">>

S_CANCELLED == <<"C","A","N","C","E","L","L","E","D">>

\* What one request to the status endpoint can come back with.  An "ok"
\* response carries Option<WebhookStatusResponse{success, data: Option<status>}>.
StatusResponses ==
    {Resp("neterr", <<>>), Resp("status", <<>>), Resp("http404", <<>>), Resp("badjson", <<>>)}
    \cup {Resp("ok", <<[success |-> FALSE, data |-> <<S_completed>>]>>),
          Resp("ok", <<[success |-> TRUE, data |-> <<>>]>>)}
    \cup {Resp("ok", <<[success |-> TRUE, data |-> <<st>>]>>) :
             st \in {S_pending, S_completed, S_Successful, S_failed, S_CANCELLED}}

\* The status of a response the loop acts on, lower-cased; NoneV otherwise
status_lower(resp) ==
    IF resp.kind = "ok" /\ resp.data[1].success /\ resp.data[1].data # <<>>
    THEN Some(to_lowercase(resp.data[1].data[1]))
    ELSE NoneV

\* Variant: only "completed" counts as completion
IsCompletedOnly(resp) ==
    /\ status_lower(resp) # NoneV
    /\ Unwrap(status_lower(resp)) = S_completed

IsCompleted(resp) ==
    /\ status_lower(resp) # NoneV
    /\ Unwrap(status_lower(resp)) \in {S_completed, to_lowercase(S_Successful)}

\* Variant: only "failed" counts as failure
IsFailedOnly(resp) ==
    /\ status_lower(resp) # NoneV
    /\ Unwrap(status_lower(resp)) = S_failed

IsFailed(resp) ==
    /\ status_lower(resp) # NoneV
    /\ Unwrap(status_lower(resp)) \in {S_failed, to_lowercase(S_CANCELLED)}

\* History only: the status of a well-formed response when it is one of the
\* terminal statuses, in the backend's spelling; NoneV otherwise
TerminalStatus(resp) ==
    IF /\ resp.kind = "ok" /\ resp.data[1].success /\ resp.data[1].data # <<>>
       /\ resp.data[1].data[1] \in {S_completed, S_Successful, S_failed, S_CANCELLED}
    THEN resp.data[1].data
    ELSE NoneV

\* History only: the kind of a response that does not end the loop
OutcomeClass(resp) ==
    IF resp.kind \in {"neterr", "status", "http404"} THEN "failed poll"
    ELSE IF status_lower(resp) = NoneV THEN "malformed"
    ELSE "non-terminal"

\* The wait budget start_transaction_polling_task passes
DefaultWaitMinutes == 30

\* let poll_interval = Duration::from_secs(2), in seconds
poll_interval == 2

\* let max_attempts = (max_wait_minutes * 60) / 3
max_attempts_of(max_wait_minutes) == (max_wait_minutes * 60) \div 3

\* Variant: a loop head that admits one more attempt
PollLoopOneMore(p) ==
    IF p.attempts <= p.max_attempts
    THEN [p EXCEPT !.pc = "status", !.attempts = @ + 1]
    ELSE [p EXCEPT !.pc = "finished", !.result = Some(Err("Polling timed out"))]

\* Loop head `while attempts < max_attempts`: the next status request is
\* issued, or the loop is left with the timeout error
PollLoop(p) ==
    IF p.attempts < p.max_attempts
    THEN [p EXCEPT !.pc = "status", !.attempts = @ + 1]
    ELSE [p EXCEPT !.pc = "finished", !.result = Some(Err("Polling timed out"))]

\* First poll of the spawned future
PollStart ==
    /\ poll.pc = "spawned"
    /\ poll' = PollLoop(poll)
    /\ UNCHANGED <<sessions, lock, poisoned, req, detached, spawned, initCalls, ledger,
                   delivered, serial, happy>>

\* The status request returns
PollReturn ==
    /\ poll.pc = "status"
    /\ \E resp \in StatusResponses :
       LET seen == [poll EXCEPT
                       !.answered = @ + 1,
                       !.terminal = IF @ = NoneV THEN TerminalStatus(resp) ELSE @,
                       !.mix = IF IsCompleted(resp) \/ IsFailed(resp) THEN @
                               ELSE @ \cup {OutcomeClass(resp)}] IN
       poll' = IF IsCompleted(resp)
               THEN [seen EXCEPT !.pc = "notify_completed"]
               ELSE IF IsFailed(resp)
               THEN [seen EXCEPT !.pc = "notify_failed"]
               ELSE IF seen.attempts < seen.max_attempts
               THEN [seen EXCEPT !.pc = "sleep"]
               ELSE PollLoop(seen)
    /\ UNCHANGED <<sessions, lock, poisoned, req, detached, spawned, initCalls, ledger,
                   delivered, serial, happy>>

\* sleep(poll_interval) is over
PollSleepReturn ==
    /\ poll.pc = "sleep"
    /\ poll' = PollLoop(poll)
    /\ UNCHANGED <<sessions, lock, poisoned, req, detached, spawned, initCalls, ledger,
                   delivered, serial, happy>>

\* send_twilio_message returns: the task returns Ok(()) or Err(..)
PollNotified ==
    /\ poll.pc \in {"notify_completed", "notify_failed"}
    /\ poll' = [poll EXCEPT
                  !.pc = "finished",
                  !.sent = Append(@, IF poll.pc = "notify_completed"
                                     THEN "WithdrawalCompleted" ELSE "WithdrawalFailed"),
                  !.result = IF poll.pc = "notify_completed" THEN Some(Ok(<<>>))
                             ELSE Some(Err("Transaction failed"))]
    /\ UNCHANGED <<sessions, lock, poisoned, req, detached, spawned, initCalls, ledger,
                   delivered, serial, happy>>

\* ======================================================== specifications
Messages ==
    {M_hi, M_help, M_create, M_address, M_balance, M_withdraw, M_withdraw_5_usdt,
     M_withdraw_10_USDT, M_withdraw_abc_USDT, M_withdraw_neg, M_withdraw_zero,
     M_withdraw_nan, M_confirm, M_cancel, M_yes, M_no, M_bank_ok, M_bank_short,
     M_bank_alpha, M_bank_three, M_bank_wide, M_alice}

\* The messages of the concurrent system: one per transition of the flow
CoreMessages ==
    {M_address, M_withdraw_5_usdt, M_confirm, M_cancel}

\* Deliveries that handle_twilio_webhook does not hand to handle_message
OddForms ==
    {[Form(WhatsappPrefix \o <<"+","1">>, M_hi) EXCEPT !.SmsStatus = Some("delivered")],
     [Form(WhatsappPrefix \o <<"+","1">>, M_hi) EXCEPT !.MessageStatus = Some("read")],
     [Form(WhatsappPrefix \o <<"+","1">>, M_hi) EXCEPT !.From = NoneV],
     [Form(WhatsappPrefix \o <<"+","1">>, M_hi) EXCEPT !.Body = NoneV],
     Form(WhatsappPrefix \o <<"+","1">>, <<" ", "\n">>),
     Form(WhatsappPrefix \o <<"9">>, M_hi)}

Init ==
    /\ sessions = [p \in Phones |-> NoneV]
    /\ lock = NoneV
    /\ poisoned = FALSE
    /\ req = [r \in Requests |-> IdleReq]
    /\ detached = [b \in DetachedSlots |-> NoTask]
    /\ spawned = <<>>
    /\ initCalls = [p \in Phones |-> 0]
    /\ ledger = [p \in Phones |-> NoLedger]
    /\ delivered = 0
    /\ serial = [p \in Phones |-> NoneV]
    /\ happy = [p \in Phones |-> 0]
    /\ poll = IdlePoll

\* The kinds of response the backend can give
ResponseKinds == {"neterr", "status", "http404", "badjson", "ok"}

\* The responses of the concurrent system: each call fails or succeeds
CoreKinds == {"neterr", "ok"}

\* The worker threads that can accept the next connection.  The threads are
\* interchangeable: while nothing is in progress the first one accepts.
AcceptingWorkers ==
    IF /\ \A r \in Requests : req[r].pc = "idle"
       /\ \A b \in DetachedSlots : detached[b].pc = "none"
    THEN {"w1"}
    ELSE Workers

CoreSenders ==
    {WhatsappPrefix \o <<"+","1">>, WhatsappPrefix \o <<"+","2">>}

\* The concurrent system: two requests in progress on two worker threads,
\* two users, the withdrawal commands
Next ==
    \/ \E r \in Requests, f \in CoreSenders, m \in CoreMessages :
          \E w \in AcceptingWorkers : Webhook(r, w, Form(f, m), MaxDeliveries)
    \/ \E r \in Requests : Acquire(r)
    \/ \E r \in Requests : GatewayReturn(r, CoreKinds)
    \/ \E r \in Requests : SendReturn(r)
    \/ \E r \in Requests : DelayReturn(r)
    \/ \E r \in Requests : Respond(r)

Spec == Init /\ [][Next]_vars

\* One user sending one message after the other: every message, every
\* response of the backend, the task spawned by `create`
UserForms ==
    {Form(WhatsappPrefix \o <<"+","1">>, m) : m \in Messages} \cup OddForms

NextUser ==
    \/ \E form \in UserForms : Webhook("r1", "w1", form, MaxMessages)
    \/ GatewayReturn("r1", ResponseKinds)
    \/ SendReturn("r1")
    \/ DelayReturn("r1")
    \/ Respond("r1")
    \/ \E b \in DetachedSlots : DetachedStart(b)
    \/ \E b \in DetachedSlots : DetachedReturn(b, ResponseKinds)

SpecUser == Init /\ [][NextUser]_vars

\* One user going through withdrawals with a saved bank account, one after
\* the other: each call fails or succeeds
FlowMessages == {M_withdraw_5_usdt, M_confirm, M_yes}

NextFlow ==
    \/ \E m \in FlowMessages :
          Webhook("r1", "w1", Form(WhatsappPrefix \o <<"+","1">>, m), MaxFlowMessages)
    \/ GatewayReturn("r1", CoreKinds)
    \/ SendReturn("r1")
    \/ Respond("r1")

SpecFlow == Init /\ [][NextFlow]_vars

\* The withdrawal execution on its own: one user whose session is in one of
\* the two confirmation states, with or without the pending amount and
\* symbol, answers the confirmation prompt
ExecSessions ==
    {[NewSession(<<"+","1">>) EXCEPT
        !.state = "SavedBankConfirmation",
        !.pending_amount = a, !.pending_currency = c,
        !.pending_bank_details = Some(b)] :
       a \in {NoneV, Some(Num(50))}, c \in {NoneV, Some(<<"U","S","D","T">>)},
       b \in {BankA, BankB}}
    \cup
    {[NewSession(<<"+","1">>) EXCEPT
        !.state = "BankDetailsConfirmation",
        !.pending_amount = a, !.pending_currency = c,
        !.pending_bank_verification = Some(VerifA)] :
       a \in {NoneV, Some(Num(50))}, c \in {NoneV, Some(<<"U","S","D","T">>)}}

ExecMessages == {M_yes, M_no, M_hi}

InitExec ==
    /\ \E s \in ExecSessions :
          /\ sessions = [p \in Phones |-> IF p = <<"+","1">> THEN Some(s) ELSE NoneV]
          /\ serial = [p \in Phones |-> IF p = <<"+","1">> THEN Some(s) ELSE NoneV]
    /\ lock = NoneV
    /\ poisoned = FALSE
    /\ req = [r \in Requests |-> IdleReq]
    /\ detached = [b \in DetachedSlots |-> NoTask]
    /\ spawned = <<>>
    /\ initCalls = [p \in Phones |-> 0]
    /\ ledger = [p \in Phones |-> NoLedger]
    /\ delivered = 0
    /\ happy = [p \in Phones |-> 9]
    /\ poll = IdlePoll

NextExec ==
    \/ \E m \in ExecMessages :
          Webhook("r1", "w1", Form(WhatsappPrefix \o <<"+","1">>, m), MaxExecMessages)
    \/ GatewayReturn("r1", ResponseKinds)
    \/ SendReturn("r1")
    \/ Respond("r1")

SpecExec == InitExec /\ [][NextExec]_vars

\* One user creating an account while the polling task of a withdrawal
\* submitted earlier is before its last attempt: requests, the task spawned by
\* `create` and the polling task run side by side
TaskMessages == {M_create, M_alice}

InitTasks ==
    /\ sessions = [p \in Phones |-> IF p = <<"+","1">> THEN Some(NewSession(p)) ELSE NoneV]
    /\ serial = sessions
    /\ lock = NoneV
    /\ poisoned = FALSE
    /\ req = [r \in Requests |-> IdleReq]
    /\ detached = [b \in DetachedSlots |-> NoTask]
    /\ spawned = <<[task |-> "poll", reference |-> References[1], user_phone |-> <<"1">>,
                    bank_name |-> "Opay", account_name |-> "Ada"]>>
    /\ initCalls = [p \in Phones |-> IF p = <<"+","1">> THEN 1 ELSE 0]
    /\ ledger = [p \in Phones |->
                   IF p = <<"+","1">> THEN [sinceWithdraw |-> 1, initOk |-> 1, paid |-> 1]
                   ELSE NoLedger]
    /\ delivered = 0
    /\ happy = [p \in Phones |-> 9]
    /\ poll = [IdlePoll EXCEPT
                 !.pc = "sleep",
                 !.max_wait_minutes = 1,
                 !.max_attempts = max_attempts_of(1),
                 !.attempts = max_attempts_of(1) - 1,
                 !.answered = max_attempts_of(1) - 1,
                 !.mix = {"non-terminal"}]

NextTasks ==
    \/ \E m \in TaskMessages :
          Webhook("r1", "w1", Form(WhatsappPrefix \o <<"+","1">>, m), MaxTaskMessages)
    \/ GatewayReturn("r1", ResponseKinds)
    \/ SendReturn("r1")
    \/ Respond("r1")
    \/ \E b \in DetachedSlots : DetachedStart(b)
    \/ \E b \in DetachedSlots : DetachedReturn(b, ResponseKinds)
    \/ PollReturn
    \/ PollSleepReturn
    \/ PollNotified

SpecTasks == InitTasks /\ [][NextTasks]_vars

\* One polling task, for each wait budget: every sequence of responses of
\* the status endpoint
WaitBudgets == {0, 1, DefaultWaitMinutes}

InitPoll ==
    /\ sessions = [p \in Phones |-> NoneV]
    /\ lock = NoneV
    /\ poisoned = FALSE
    /\ req = [r \in Requests |-> IdleReq]
    /\ detached = [b \in DetachedSlots |-> NoTask]
    /\ spawned = <<>>
    /\ initCalls = [p \in Phones |-> 0]
    /\ ledger = [p \in Phones |-> NoLedger]
    /\ delivered = 0
    /\ serial = [p \in Phones |-> NoneV]
    /\ happy = [p \in Phones |-> 0]
    /\ \E m \in WaitBudgets :
          poll = [IdlePoll EXCEPT !.pc = "spawned", !.max_wait_minutes = m,
                                  !.max_attempts = max_attempts_of(m)]

NextPoll ==
    \/ PollStart
    \/ PollReturn
    \/ PollSleepReturn
    \/ PollNotified

SpecPoll == InitPoll /\ [][NextPoll]_vars

\* The same task when every status request returns (the client's 120 s
\* timeout), every sleep ends and every send returns
SpecPollFair == InitPoll /\ [][NextPoll]_vars /\ WF_vars(NextPoll)

\* ============================================================ properties
\* A request that has run its handler to the end (the guard is dropped)
Dispatched(r) == req[r].after # NoneV

\* C1: concurrent dispatches are serialized by the lock.  Whenever the
\* guard is free the stored sessions are exactly what the handlers give when
\* run one after the other, in the order the guard was taken (no lost
\* update); and a handler that is inside found the session as the previous
\* handlers left it and is the only one inside (no torn read).
C1_Serialized ==
    /\ lock = NoneV => sessions = serial
    /\ \A r \in Requests :
          req[r].pc \in HandlerPcs =>
             /\ lock = Some(r)
             /\ req[r].snap = Some(SessionOf(serial, req[r].phone))
             /\ \A q \in Phones \ {req[r].phone} : sessions[q] = serial[q]

\* Two dispatches of the same identifier overlapped: one waited for the
\* guard while the other was inside, then changed the session itself
C1_Witness ==
    \E r, u \in Requests :
       /\ r # u
       /\ req[r].waited /\ Dispatched(r)
       /\ req[r].after # req[r].snap
       /\ Dispatched(u) /\ req[u].phone = req[r].phone
       /\ req[u].after = req[r].snap
       /\ req[u].after # req[u].snap

\* C2: no call (backend, Twilio or timer) is in flight in a request that
\* holds the guard
C2_NoCallUnderLock ==
    \A r \in Requests : lock = Some(r) => req[r].call = NoneV

\* C3: a dispatch never waits for the guard while it is held by the dispatch
\* of a different identifier
C3_NoCrossIdentifierWait ==
    \A r, u \in Requests :
       req[r].pc = "blocked" /\ lock = Some(u) => req[u].phone = req[r].phone

\* C4: the first message of an identifier finds the freshly inserted session
\* (Initial, nothing else set) when it is dispatched; a session, once stored,
\* stays stored under its identifier.
C4_Created ==
    \A r \in Requests :
       /\ req[r].created =>
             req[r].snap = Some([phone |-> req[r].phone, state |-> "Initial",
                                 account_id |-> NoneV, pending_amount |-> NoneV,
                                 pending_currency |-> NoneV, controller_address |-> NoneV,
                                 pending_bank_details |-> NoneV,
                                 pending_bank_verification |-> NoneV])
       /\ req[r].snap # NoneV => sessions[req[r].phone] # NoneV
       /\ req[r].snap # NoneV /\ ~req[r].created =>
             Unwrap(req[r].snap).phone = req[r].phone

C4_Kept ==
    \A p \in Phones :
       sessions[p] # NoneV =>
          /\ sessions'[p] # NoneV
          /\ Unwrap(sessions'[p]).phone = p

C4_Lifecycle == []C4_Created /\ [][C4_Kept]_vars

\* A second message of an identifier is dispatched on the session the first
\* one created
C4_Witness ==
    \E r \in Requests :
       /\ Dispatched(r) /\ ~req[r].created
       /\ Unwrap(req[r].snap).state # "Initial"
       /\ \E q \in Phones \ {req[r].phone} : sessions[q] # NoneV

\* The amounts and symbols typed in the accepted withdraw commands, and what
\* they denote (tenths of a unit, upper-cased symbol)
WithdrawTable ==
    <<[msg |-> M_withdraw_5_usdt,  tenths |-> 50,  crypto |-> <<"U","S","D","T">>],
      [msg |-> M_withdraw_10_USDT, tenths |-> 100, crypto |-> <<"U","S","D","T">>],
      [msg |-> M_withdraw_neg,     tenths |-> -50, crypto |-> <<"U","S","D","T">>],
      [msg |-> M_withdraw_zero,    tenths |-> 0,   crypto |-> <<"U","S","D","C">>]>>

\* C5: in Initial, `withdraw <amount> <crypto>` with a numeric amount, when
\* the rate lookup succeeds, leaves the session in OfframpConfirmation with
\* pending_amount the number typed and pending_currency the symbol in upper
\* case, the other fields as they were.
C5_WithdrawAccepted ==
    \A r \in Requests : \A i \in DOMAIN WithdrawTable :
       /\ Dispatched(r)
       /\ Unwrap(req[r].snap).state = "Initial"
       /\ req[r].msg = WithdrawTable[i].msg
       /\ Len(req[r].resps) = 1
       /\ req[r].resps[1].kind = "ok" /\ req[r].resps[1].data # <<>>
       => req[r].after =
             Some([Unwrap(req[r].snap) EXCEPT
                     !.state = "OfframpConfirmation",
                     !.pending_amount =
                        Some([kind |-> "num", tenths |-> WithdrawTable[i].tenths]),
                     !.pending_currency = Some(WithdrawTable[i].crypto)])

\* `withdraw 5 usdt` was accepted: 5.0 "USDT" is pending
C5_Witness ==
    \E r \in Requests :
       /\ Dispatched(r)
       /\ Unwrap(req[r].snap).state = "Initial"
       /\ req[r].msg = M_withdraw_5_usdt
       /\ Unwrap(req[r].after).state = "OfframpConfirmation"
       /\ Unwrap(req[r].after).pending_amount = Some([kind |-> "num", tenths |-> 50])
       /\ Unwrap(req[r].after).pending_currency = Some(<<"U","S","D","T">>)

\* A decimal numeral: an optional sign, digits, at most one decimal point
IsDecimalNumeral(tok) ==
    LET body == IF tok # <<>> /\ tok[1] \in {"+", "-"} THEN Tail(tok) ELSE tok
        dots == {i \in 1..Len(body) : body[i] = "."}
    IN  /\ Cardinality(dots) <= 1
        /\ Len(body) > Cardinality(dots)
        /\ \A i \in 1..Len(body) : body[i] = "." \/ IsAsciiDigit(body[i])

\* The messages of Initial that are neither `create` nor a `withdraw` with
\* an amount and a symbol
InitialOthers ==
    {M_hi, M_help, M_address, M_balance, M_withdraw, M_confirm, M_cancel, M_yes,
     M_no, M_bank_ok, M_bank_short, M_alice}

\* C6: in Initial, a `withdraw` whose amount is not a numeral issues no
\* gateway call, is answered with the one format-error message and leaves
\* the session as it was; every other input but `create` and a well-formed
\* `withdraw` is answered and leaves the session as it was.
C6_InitialRejects ==
    \A r \in Requests :
       req[r].snap # NoneV /\ Unwrap(req[r].snap).state = "Initial" =>
          LET parts == split_whitespace(req[r].msg) IN
          /\ /\ Len(parts) >= 3
             /\ to_lowercase(parts[1]) = W_withdraw
             /\ ~IsDecimalNumeral(parts[2])
             => /\ req[r].calls = <<>>
                /\ Dispatched(r) => /\ req[r].outbox = <<Reply("InvalidAmount")>>
                                    /\ req[r].after = req[r].snap
          /\ req[r].msg \in InitialOthers /\ Dispatched(r)
             => /\ req[r].outbox # <<>>
                /\ req[r].after = req[r].snap

\* C7: a dispatch that clears the session (`cancel` in OfframpConfirmation,
\* `no` in SavedBankConfirmation, a submitted withdrawal) leaves state
\* Initial, the four pending fields absent, and phone, account_id and
\* controller_address as they were.
C7_Cleared ==
    \A r \in Requests :
       /\ Dispatched(r)
       /\ \/ Unwrap(req[r].snap).state = "OfframpConfirmation" /\ req[r].msg = M_cancel
          \/ Unwrap(req[r].snap).state = "SavedBankConfirmation" /\ req[r].msg = M_no
          \/ req[r].outbox = <<Reply("WithdrawalSubmitted")>>
       => LET before == Unwrap(req[r].snap)
              after  == Unwrap(req[r].after)
          IN  /\ after.state = "Initial"
              /\ after.pending_amount = NoneV
              /\ after.pending_currency = NoneV
              /\ after.pending_bank_details = NoneV
              /\ after.pending_bank_verification = NoneV
              /\ after.phone = before.phone
              /\ after.account_id = before.account_id
              /\ after.controller_address = before.controller_address

\* `cancel` in OfframpConfirmation, with an amount and a symbol pending and
\* a controller address stored
C7_Witness ==
    \E r \in Requests :
       /\ Dispatched(r)
       /\ Unwrap(req[r].snap).state = "OfframpConfirmation"
       /\ req[r].msg = M_cancel
       /\ Unwrap(req[r].snap).pending_amount # NoneV
       /\ Unwrap(req[r].snap).pending_currency # NoneV
       /\ Unwrap(req[r].snap).controller_address # NoneV

\* C8: in BankDetailsEntry the verify-bank call is issued, once, exactly for
\* the inputs of two comma-separated fields whose account number has at
\* least 10 characters, all of them digits; any other input is answered with
\* one re-prompt, without a call and with the session as it was.
C8_VerifyIffValid ==
    \A r \in Requests :
       req[r].snap # NoneV /\ Unwrap(req[r].snap).state = "BankDetailsEntry" =>
          LET fields  == split(req[r].msg, {","})
              account == trim(fields[2])
              valid   == /\ Len(fields) = 2
                         /\ Len(account) >= 10
                         /\ \A i \in 1..Len(account) : is_numeric(account[i])
              verifies == {i \in 1..Len(req[r].calls) : req[r].calls[i].op = "verify-bank"}
          IN  /\ valid <=> Cardinality(verifies) = 1
              /\ ~valid => /\ req[r].calls = <<>>
                           /\ Dispatched(r) => /\ Len(req[r].outbox) = 1
                                               /\ req[r].after = req[r].snap

\* C9: after `withdraw 10 USDT`, `confirm` with no saved bank, `Opay,
\* 01234567890` verified, `yes` with save, listing, initiation and trigger all
\* successful, the session is in Initial with nothing pending, one initiation
\* call has been issued and one polling task started.
C9_HappyPath ==
    \A r \in Requests :
       Dispatched(r) /\ happy[req[r].phone] = 4 =>
          LET p == req[r].phone IN
          /\ sessions[p] = req[r].after
          /\ Unwrap(sessions[p]).state = "Initial"
          /\ Unwrap(sessions[p]).pending_amount = NoneV
          /\ Unwrap(sessions[p]).pending_currency = NoneV
          /\ Unwrap(sessions[p]).pending_bank_details = NoneV
          /\ Unwrap(sessions[p]).pending_bank_verification = NoneV
          /\ initCalls[p] = 1
          /\ Len(spawned) = 1
          /\ spawned[1].task = "poll"
          /\ spawned[1].reference = "ref1"

\* The four messages went through and the last reply is on its way
C9_Witness ==
    \E r \in Requests :
       /\ Dispatched(r)
       /\ happy[req[r].phone] = 4
       /\ req[r].msg = M_yes
       /\ Unwrap(req[r].snap).state = "BankDetailsConfirmation"
       /\ Len(req[r].calls) = 4

\* C10: when the first terminal status returned is a completion status, the
\* task stops polling with that response (as many polls as responses, within
\* the budget), sends the one completion notification and returns Ok; until
\* a terminal status is returned the task goes on polling, and it finishes
\* without one only when the budget is spent.
C10_Completion ==
    /\ poll.terminal \in {Some(S_completed), Some(S_Successful)} =>
          /\ poll.pc \in {"notify_completed", "finished"}
          /\ poll.attempts = poll.answered
          /\ poll.attempts <= poll.max_attempts
          /\ poll.pc = "notify_completed" => poll.sent = <<>>
          /\ poll.pc = "finished" => /\ poll.sent = <<"WithdrawalCompleted">>
                                     /\ poll.result = Some(Ok(<<>>))
    /\ poll.terminal = NoneV =>
          /\ poll.sent = <<>>
          /\ poll.pc = "finished" => /\ poll.attempts = poll.max_attempts
                                     /\ poll.answered = poll.max_attempts

\* Completion reported by the fourth poll or later, after a failed poll, a
\* malformed body and a non-terminal status
C10_Witness ==
    /\ poll.pc = "finished"
    /\ poll.result = Some(Ok(<<>>))
    /\ poll.terminal = Some(S_Successful)
    /\ poll.answered >= 4
    /\ poll.mix = {"failed poll", "malformed", "non-terminal"}

\* C11: a task that is never given a terminal status finishes, after
\* max_attempts polls, with the timeout error and without having sent a
\* notification; and every task does finish.
C11_TimedOut ==
    poll.pc = "finished" /\ poll.terminal = NoneV =>
       /\ poll.attempts = poll.max_attempts
       /\ poll.answered = poll.max_attempts
       /\ poll.result = Some(Err("Polling timed out"))
       /\ poll.sent = <<>>

C12_NotifiedOnce ==
    /\ Len(poll.sent) <= 1
    /\ poll.terminal \in {Some(S_failed), Some(S_CANCELLED)} =>
          /\ poll.pc \in {"notify_failed", "finished"}
          /\ poll.attempts = poll.answered
          /\ poll.pc = "notify_failed" => poll.sent = <<>>
          /\ poll.pc = "finished" => /\ poll.sent = <<"WithdrawalFailed">>
                                     /\ poll.result # NoneV
                                     /\ ~Unwrap(poll.result).ok

\* A cancellation reported after polls that did not end the task
C12_Witness ==
    /\ poll.pc = "finished"
    /\ poll.terminal = Some(S_CANCELLED)
    /\ poll.answered >= 3
    /\ poll.sent = <<"WithdrawalFailed">>
    /\ poll.result = Some(Err("Transaction failed"))

\* C13: in every stored session pending_amount and pending_currency are
\* both present or both absent.
C13_AmountWithCurrency ==
    \A p \in Phones :
       sessions[p] # NoneV =>
          (Unwrap(sessions[p]).pending_amount = NoneV
             <=> Unwrap(sessions[p]).pending_currency = NoneV)

\* A session that had both set by `withdraw` and has been cleared by the
\* dispatch that just ended
C13_Witness ==
    \E r \in Requests :
       /\ Dispatched(r)
       /\ Unwrap(req[r].snap).pending_amount # NoneV
       /\ Unwrap(req[r].snap).pending_currency # NoneV
       /\ sessions[req[r].phone] = req[r].after
       /\ Unwrap(req[r].after).pending_amount = NoneV
       /\ Unwrap(req[r].after).pending_currency = NoneV

\* C14: in every stored session pending_bank_verification is present only
\* in the state BankDetailsConfirmation.
C14_VerificationOnlyInConfirmation ==
    \A p \in Phones :
       sessions[p] # NoneV /\ Unwrap(sessions[p]).pending_bank_verification # NoneV
          => Unwrap(sessions[p]).state = "BankDetailsConfirmation"

\* A verification was stored, and `no` has sent the user back to
\* BankDetailsEntry without it
C14_Witness ==
    \E r \in Requests :
       /\ Dispatched(r)
       /\ Unwrap(req[r].snap).state = "BankDetailsConfirmation"
       /\ Unwrap(req[r].snap).pending_bank_verification # NoneV
       /\ req[r].msg = M_no
       /\ sessions[req[r].phone] = req[r].after
       /\ Unwrap(req[r].after).state = "BankDetailsEntry"
       /\ Unwrap(req[r].after).pending_bank_verification = NoneV

\* The dispatch of r called the initiation endpoint
InitiationCalled(r) ==
    \E i \in 1..Len(req[r].calls) : req[r].calls[i].op = "initiate-withdrawal"

\* C15: when the withdrawal execution fails after the initiation call (the
\* call itself, its response or the payment trigger), the reply carries the
\* error text and the session is left cleared: Initial, nothing pending.
C15_FailureClears ==
    \A r \in Requests :
       /\ Dispatched(r)
       /\ InitiationCalled(r)
       /\ req[r].outbox # <<Reply("WithdrawalSubmitted")>>
       => /\ Len(req[r].outbox) = 1
          /\ req[r].outbox[1].tag = "WithdrawalFailed"
          /\ req[r].outbox[1].arg # ""
          /\ Unwrap(req[r].after).state = "Initial"
          /\ Unwrap(req[r].after).pending_amount = NoneV
          /\ Unwrap(req[r].after).pending_currency = NoneV
          /\ Unwrap(req[r].after).pending_bank_details = NoneV
          /\ Unwrap(req[r].after).pending_bank_verification = NoneV

\* C16: between two initiation calls of an identifier there is a `withdraw`
\* accepted in Initial: no `withdraw` is followed by a second initiation call.
C16_OneInitiationPerWithdraw ==
    \A p \in Phones : ledger[p].sinceWithdraw <= 1

Discardable(form) ==
    \/ /\ StatusOf(form) # NoneV
       /\ Unwrap(StatusOf(form)) \in {"delivered", "read", "sent", "failed", "undelivered"}
    \/ /\ form.From # NoneV
       /\ \/ form.Body = NoneV
          \/ \A i \in 1..Len(Unwrap(form.Body)) : Unwrap(form.Body)[i] \in Whitespace
          \/ replace(replace(Unwrap(form.From), WhatsappPrefix, <<>>), <<"+">>, <<>>)
               = <<"9">>

\* C18: a delivery with a terminal delivery status, an empty or
\* whitespace-only body or the bot's own number as sender is answered with
\* the empty acknowledgement and nothing else happens: no session is read,
\* created or changed, no call is issued, no message is sent.
C18_DiscardedRequest ==
    \A r \in Requests :
       req[r].form # NoneV /\ Discardable(Unwrap(req[r].form)) =>
          /\ req[r].pc = "respond"
          /\ req[r].ack = Some(EmptyAck)
          /\ req[r].snap = NoneV /\ req[r].after = NoneV
          /\ req[r].call = NoneV /\ req[r].calls = <<>>
          /\ req[r].outbox = <<>>

C18_DiscardStep ==
    \A r \in Requests :
       /\ req[r].pc = "idle"
       /\ req'[r].form # NoneV
       /\ Discardable(Unwrap(req'[r].form))
       => /\ sessions' = sessions
          /\ lock' = lock
          /\ spawned' = spawned
          /\ detached' = detached
          /\ initCalls' = initCalls

C18_Discarded == []C18_DiscardedRequest /\ [][C18_DiscardStep]_vars

\* A whitespace-only delivery from a sender that has no session
C18_Witness ==
    \E r \in Requests :
       /\ req[r].form = Some(Form(WhatsappPrefix \o <<"+","1">>, <<" ", "\n">>))
       /\ req[r].pc = "respond"
       /\ sessions[<<"+","1">>] = NoneV
       /\ delivered >= 2

\* C19: a delivery from a sender that is not discarded is handed to
\* handle_message, and whatever the handler did (replied, failed on the
\* gateway, rejected the input, produced no reply) the webhook is answered
\* with the same empty acknowledgement.
C19_SameAcknowledgement ==
    \A r \in Requests :
       /\ req[r].form # NoneV
       /\ Unwrap(req[r].form).From # NoneV
       /\ ~Discardable(Unwrap(req[r].form))
       => /\ req[r].pc = "blocked" \/ req[r].snap # NoneV
          /\ req[r].pc = "respond" =>
                /\ Dispatched(r)
                /\ req[r].sent = Len(req[r].outbox)
                /\ req[r].ack = Some([status |-> 200, body |-> "<Response></Response>"])
          /\ req[r].pc # "respond" => req[r].ack = NoneV

\* Acknowledged after a gateway failure
C19_Witness ==
    \E r \in Requests :
       /\ req[r].pc = "respond"
       /\ Dispatched(r)
       /\ req[r].resps # <<>>
       /\ req[r].resps[Len(req[r].resps)].kind = "neterr"
       /\ req[r].ack = Some(EmptyAck)


\* The number of initiation calls answered with success, of payments
\* triggered, over all phones
InitiationsSucceeded == Total([p \in Phones |-> ledger[p].initOk], Phones)

PaymentsTriggered == Total([p \in Phones |-> ledger[p].paid], Phones)

C20_TasksCounted ==
    /\ Len(spawned) = PaymentsTriggered
    /\ Len(spawned) <= InitiationsSucceeded
    /\ \A i, j \in 1..Len(spawned) :
          i # j => spawned[i].reference # spawned[j].reference

C20_SpawnStep ==
    Len(spawned') # Len(spawned) =>
       /\ Len(spawned') = Len(spawned) + 1
       /\ \E r \in Requests :
             LET rs == req'[r].resps IN
             /\ req[r].pc = "offramp_trigger"
             /\ Len(rs) >= 2
             /\ rs[Len(rs)].kind = "ok"
             /\ rs[Len(rs) - 1].kind = "ok"
             /\ rs[Len(rs) - 1].data[1].success
             /\ rs[Len(rs) - 1].data[1].data # <<>>
             /\ spawned'[Len(spawned')].reference = rs[Len(rs) - 1].data[1].reference

GatewayFailed(r) ==
    \E i \in 1..Len(req[r].resps) :
       /\ req[r].calls[i].op \notin {"send", "sleep"}
       /\ req[r].resps[i].kind # "ok"
       /\ ~(req[r].calls[i].op = "list-saved-banks" /\ req[r].resps[i].kind = "http404")

\* C21: a dispatch that met a failure of the backend replies with a chat
\* message and leaves the stored session either as it found it or cleared
\* (Initial, nothing pending): never a third value.
C21_FailureLeavesSafe ==
    \A r \in Requests :
       Dispatched(r) /\ GatewayFailed(r) =>
          /\ req[r].outbox # <<>>
          /\ \/ req[r].after = req[r].snap
             \/ req[r].after = Some(clear_session(Unwrap(req[r].snap)))

\* The bank list a response of the list endpoint carries: the decoded list,
\* or no account at all for the status 404
ListedBanks(resp) == IF resp.kind = "ok" THEN resp.data ELSE <<>>

\* C22: in OfframpConfirmation `confirm` asks for the saved bank accounts;
\* a non-empty list stores its first element as pending_bank_details and
\* moves to SavedBankConfirmation, an empty list moves to BankDetailsEntry
\* with no pending_bank_details; an input other than `confirm` and `cancel`
\* is answered with the prompt and changes nothing; the pending amount and
\* symbol are kept in the three cases.
C22_OfframpConfirmation ==
    \A r \in Requests :
       Dispatched(r) /\ Unwrap(req[r].snap).state = "OfframpConfirmation" =>
          LET before == Unwrap(req[r].snap)
              after  == Unwrap(req[r].after)
              m      == to_lowercase(req[r].msg)
          IN  /\ m = W_confirm =>
                   /\ Len(req[r].calls) = 1
                   /\ req[r].calls[1].op = "list-saved-banks"
                   /\ req[r].resps[1].kind \in {"ok", "http404"} =>
                        LET banks == ListedBanks(req[r].resps[1]) IN
                        /\ banks # <<>> =>
                              after = [before EXCEPT
                                         !.pending_bank_details = Some(banks[1]),
                                         !.state = "SavedBankConfirmation"]
                        /\ banks = <<>> =>
                              /\ after = [before EXCEPT !.state = "BankDetailsEntry"]
                              /\ after.pending_bank_details = NoneV
                        /\ after.pending_amount = before.pending_amount
                        /\ after.pending_currency = before.pending_currency
                        /\ after.pending_amount # NoneV
                        /\ after.pending_currency # NoneV
              /\ m \notin {W_confirm, W_cancel} =>
                   /\ after = before
                   /\ req[r].calls = <<>>
                   /\ req[r].outbox = <<Reply("ConfirmOrCancel")>>
                   /\ after.pending_amount # NoneV
                   /\ after.pending_currency # NoneV

\* `confirm` answered with two saved accounts: the first one is selected
C22_Witness ==
    \E r \in Requests :
       /\ Dispatched(r)
       /\ Unwrap(req[r].snap).state = "OfframpConfirmation"
       /\ req[r].msg = M_confirm
       /\ req[r].resps = <<Resp("ok", <<BankB, BankA>>)>>
       /\ Unwrap(req[r].after).pending_bank_details = Some(BankB)
       /\ Unwrap(req[r].after).state = "SavedBankConfirmation"

\* C23: in BankDetailsEntry a bank name and an account number that pass the
\* validation are sent to the verification endpoint; when it returns a
\* record, the record is stored as pending_bank_verification and the state
\* becomes BankDetailsConfirmation; when it fails, the error is replied and
\* the session is left exactly as it was, in BankDetailsEntry.
C23_Verification ==
    \A r \in Requests :
       Dispatched(r) /\ Unwrap(req[r].snap).state = "BankDetailsEntry" =>
          LET before == Unwrap(req[r].snap)
              after  == Unwrap(req[r].after)
              resp   == req[r].resps[1]
          IN  /\ req[r].msg = M_bank_ok =>
                   req[r].calls =
                     <<Call("verify-bank",
                            [phone |-> <<"1">>,
                             bank_name |-> <<"O","p","a","y">>,
                             account_number |->
                                <<"0","1","2","3","4","5","6","7","8","9","0">>])>>
              /\ req[r].calls # <<>> =>
                   /\ Len(req[r].calls) = 1
                   /\ req[r].calls[1].op = "verify-bank"
                   /\ resp.kind = "ok" /\ resp.data # <<>> =>
                        /\ after = [before EXCEPT
                                      !.pending_bank_verification = Some(resp.data[1]),
                                      !.state = "BankDetailsConfirmation"]
                        /\ req[r].outbox = <<Reply("AccountVerified")>>
                   /\ ~(resp.kind = "ok" /\ resp.data # <<>>) =>
                        /\ after = before
                        /\ Len(req[r].outbox) = 1
                        /\ req[r].outbox[1].tag = "VerificationFailed"
                        /\ req[r].outbox[1].arg # ""
              /\ req[r].calls = <<>> => after = before

\* A bank name and account number verified by the backend
C23_Witness ==
    \E r \in Requests :
       /\ Dispatched(r)
       /\ Unwrap(req[r].snap).state = "BankDetailsEntry"
       /\ req[r].msg = M_bank_ok
       /\ req[r].resps = <<Resp("ok", <<VerifA>>)>>
       /\ Unwrap(req[r].after).pending_bank_verification = Some(VerifA)
       /\ Unwrap(req[r].after).state = "BankDetailsConfirmation"

\* The operations of the calls issued by the dispatch of r, in order
OpsOf(r) == [i \in 1..Len(req[r].calls) |-> req[r].calls[i].op]

IsPrefix(s, t) == Len(s) <= Len(t) /\ \A i \in 1..Len(s) : s[i] = t[i]

\* `yes` in BankDetailsConfirmation: the calls are save-bank, then
\* list-saved-banks only after save-bank succeeded, then initiate-withdrawal
\* only after a non-empty list and with the id of its first element
C24_CallOrder ==
    \A r \in Requests :
       /\ req[r].snap # NoneV
       /\ Unwrap(req[r].snap).state = "BankDetailsConfirmation"
       /\ to_lowercase(req[r].msg) = W_yes
       => /\ IsPrefix(OpsOf(r), <<"save-bank", "list-saved-banks",
                                  "initiate-withdrawal", "trigger-payment">>)
          /\ Len(req[r].calls) >= 2 => req[r].resps[1].kind = "ok"
          /\ Len(req[r].calls) >= 3 =>
                /\ req[r].resps[2].kind = "ok"
                /\ req[r].resps[2].data # <<>>
                /\ req[r].calls[3].arg.bank_account_id
                     = req[r].resps[2].data[1].bank_details_id
          /\ (Dispatched(r) /\ Len(req[r].resps) >= 1 /\ req[r].resps[1].kind = "ok")
                => Len(req[r].calls) >= 2
          /\ (Dispatched(r) /\ Len(req[r].resps) >= 2 /\ req[r].resps[2].kind = "ok"
                /\ req[r].resps[2].data # <<>>)
                => Len(req[r].calls) >= 3

\* C24: on `yes` in BankDetailsConfirmation the calls are issued in the
\* order save-bank, list-saved-banks, initiate-withdrawal, each only after
\* the one before succeeded, the initiation with the id of the first listed
\* account, and once the initiation has been called the session is left
\* cleared.
C24_SaveListInitiate ==
    /\ C24_CallOrder
    /\ \A r \in Requests :
          /\ Dispatched(r)
          /\ Unwrap(req[r].snap).state = "BankDetailsConfirmation"
          /\ to_lowercase(req[r].msg) = W_yes
          /\ InitiationCalled(r)
          => req[r].after = Some(clear_session(Unwrap(req[r].snap)))

\* In SavedBankConfirmation: `yes` calls the initiation endpoint with the id
\* of the account stored as pending_bank_details, `no` clears the session
\* without a call, any other input is answered with the prompt and changes
\* nothing
C25_Selection ==
    \A r \in Requests :
       Dispatched(r) /\ Unwrap(req[r].snap).state = "SavedBankConfirmation" =>
          LET before == Unwrap(req[r].snap)
              m      == to_lowercase(req[r].msg)
          IN  /\ m = W_yes =>
                   /\ before.pending_bank_details # NoneV
                   /\ req[r].calls # <<>>
                   /\ req[r].calls[1].op = "initiate-withdrawal"
                   /\ req[r].calls[1].arg.bank_account_id
                        = Unwrap(before.pending_bank_details).bank_details_id
                   /\ req[r].calls[1].arg.amount = Unwrap(before.pending_amount)
                   /\ req[r].calls[1].arg.token_symbol = Unwrap(before.pending_currency)
              /\ m = W_no =>
                   /\ req[r].calls = <<>>
                   /\ req[r].after = Some(clear_session(before))
              /\ m \notin {W_yes, W_no} =>
                   /\ req[r].calls = <<>>
                   /\ req[r].after = req[r].snap
                   /\ req[r].outbox = <<Reply("YesOrNoCancel")>>

\* C25: in SavedBankConfirmation `yes` calls the initiation endpoint with
\* the id of the saved account stored in the session and the session is
\* then cleared; `no` clears the session without a call; any other input is
\* answered with the prompt and leaves the session unchanged.
C25_SavedBankConfirmation ==
    /\ C25_Selection
    /\ \A r \in Requests :
          /\ Dispatched(r)
          /\ Unwrap(req[r].snap).state = "SavedBankConfirmation"
          /\ to_lowercase(req[r].msg) = W_yes
          => req[r].after = Some(clear_session(Unwrap(req[r].snap)))

AccountCreationFailures ==
    {ReplyWith("Failed", AccountCreationFailed),
     Reply("AccountCreationFailedControllerSetup"),
     Reply("AccountCreationFailedContactSupport")}

\* C26: in AccountCreation the whole message is the username; the account
\* is provisioned first and the controller only if that succeeded; when both
\* succeed the address returned is stored as controller_address and the
\* state becomes Initial; when either fails, or the controller response does
\* not decode, one failure message is replied and the session is left as it
\* was, in AccountCreation.
C26_AccountCreation ==
    \A r \in Requests :
       Dispatched(r) /\ Unwrap(req[r].snap).state = "AccountCreation" =>
          LET before == Unwrap(req[r].snap)
              calls  == req[r].calls
              resps  == req[r].resps
          IN  /\ IsPrefix(OpsOf(r), <<"send", "provision-account", "provision-controller",
                                      "send", "sleep", "send">>)
              /\ Len(calls) >= 2
              /\ calls[2].arg.username = req[r].msg
              /\ Len(calls) >= 3 <=> resps[2].kind = "ok"
              /\ Len(calls) >= 3 => calls[3].arg.username = req[r].msg
              /\ IF Len(calls) >= 3 /\ resps[3].kind = "ok"
                 THEN /\ req[r].after =
                           Some([before EXCEPT !.controller_address = Some(resps[3].data[1]),
                                               !.state = "Initial"])
                      /\ req[r].outbox = <<>>
                 ELSE /\ req[r].after = req[r].snap
                      /\ Len(req[r].outbox) = 1
                      /\ req[r].outbox[1] \in AccountCreationFailures

\* The username `alice` provisioned: the address is stored
C26_Witness ==
    \E r \in Requests :
       /\ Dispatched(r)
       /\ Unwrap(req[r].snap).state = "AccountCreation"
       /\ req[r].msg = M_alice
       /\ Unwrap(req[r].after).state = "Initial"
       /\ Unwrap(req[r].after).controller_address = Some("0xC1")
       /\ sessions[req[r].phone] = req[r].after

\* The first word of the message of r is `create`
IsCreate(r) ==
    /\ split_whitespace(req[r].msg) # <<>>
    /\ to_lowercase(split_whitespace(req[r].msg)[1]) = W_create

\* Between the dispatches the store holds what the dispatches left; `create`
\* in Initial leaves the session in AccountCreation and otherwise as it was;
\* a message in AccountCreation starts the provisioning again
C27_StoreOfDispatches ==
    /\ lock = NoneV => sessions = serial
    /\ \A r \in Requests :
          Dispatched(r) /\ Unwrap(req[r].snap).state = "Initial" /\ IsCreate(r) =>
             /\ req[r].after = Some([Unwrap(req[r].snap) EXCEPT !.state = "AccountCreation"])
             /\ sessions[req[r].phone] = req[r].after
    /\ \A r \in Requests :
          Dispatched(r) /\ Unwrap(req[r].snap).state = "AccountCreation" =>
             /\ Len(req[r].calls) >= 2
             /\ req[r].calls[2].op = "provision-account"

\* A step that changes the store is a step of the handler of a request that
\* holds the guard; the steps of the two background tasks leave it alone
C27_StoreStep ==
    /\ sessions' # sessions =>
          \E r \in Requests :
             /\ lock = Some(r) \/ (lock = NoneV /\ req[r].pc \in {"idle", "blocked"})
             /\ req'[r].snap # NoneV
             /\ req'[r] # req[r]
             /\ lock' = Some(r) \/ Dispatched(r)'
    /\ (poll' # poll) => sessions' = sessions
    /\ (detached' # detached /\ req' = req) => sessions' = sessions

\* C27: a stored session is changed only by the handler of a request that
\* holds the guard: the task spawned by `create` works on its copy and the
\* polling task has no session, so neither changes the store; after `create`
\* in Initial the stored session is in AccountCreation with the controller
\* address as it was, and stays so whatever the spawned task is answered,
\* until the next message of the user is dispatched and provisions again.
C27_OnlyDispatchWrites == []C27_StoreOfDispatches /\ [][C27_StoreStep]_vars

\* The spawned task has stored the address in its copy and the polling task
\* has notified the user, while the store still waits for a username
C27_Witness ==
    /\ \E b \in DetachedSlots :
          /\ detached[b].session # NoneV
          /\ Unwrap(detached[b].session).state = "Initial"
          /\ Unwrap(detached[b].session).controller_address = Some("0xC1")
    /\ poll.pc = "finished" /\ poll.sent # <<>>
    /\ req["r1"].pc = "idle"
    /\ sessions[<<"+","1">>] # NoneV
    /\ Unwrap(sessions[<<"+","1">>]).state = "AccountCreation"
    /\ Unwrap(sessions[<<"+","1">>]).controller_address = NoneV

\* The reply loop of handle_message sends the replies one at a time, in the
\* order the handler returned them: the one call in flight is the send of
\* reply number `sent`, or the delay before the next one
C28_InOrder ==
    \A r \in Requests :
       /\ req[r].pc = "send" =>
             /\ req[r].sent \in 1..Len(req[r].outbox)
             /\ req[r].call = Some(Call("send", [to |-> req[r].phone,
                                                 body |-> req[r].outbox[req[r].sent]]))
       /\ req[r].pc = "delay" =>
             /\ req[r].sent \in 1..(Len(req[r].outbox) - 1)
             /\ req[r].call = Some(Call("sleep", 1000))
       /\ req[r].pc = "respond" /\ Dispatched(r) => req[r].sent = Len(req[r].outbox)

\* The next reply is started only by the end of the delay that followed the
\* return of the send before it
C28_LoopStep ==
    \A r \in Requests :
       req'[r].sent # req[r].sent =>
          \/ req'[r].pc = "idle"
          \/ req[r].sent = 0 /\ req'[r].sent = 1
          \/ req[r].pc = "delay" /\ req'[r].pc = "send" /\ req'[r].sent = req[r].sent + 1

\* The sends the dispatch of r has started so far, those of the handler and
\* then those of the reply loop, each with the number of sleeps before it
SendsOf(r) ==
    LET inHandler == {i \in 1..Len(req[r].calls) : req[r].calls[i].op = "send"}
        sleepsIn  == {i \in 1..Len(req[r].calls) : req[r].calls[i].op = "sleep"}
    IN  [handler |-> inHandler, sleeps |-> sleepsIn, loop |-> req[r].sent]

\* C28: the messages sent for one inbound message are sent one at a time in
\* the order produced, and between the return of one send and the start of
\* the next the delay has elapsed.
C28_SequentialWithDelay ==
    /\ C28_InOrder
    /\ \A r \in Requests :
          LET s == SendsOf(r) IN
          /\ \A i, j \in s.handler :
                i < j => \E k \in s.sleeps : i < k /\ k < j
          /\ s.loop >= 1 => \A i \in s.handler : \E k \in s.sleeps : i < k

\* The changes of state the statement allows
Edges ==
    {<<"Initial", "AccountCreation">>, <<"Initial", "OfframpConfirmation">>,
     <<"AccountCreation", "Initial">>,
     <<"OfframpConfirmation", "SavedBankConfirmation">>,
     <<"OfframpConfirmation", "BankDetailsEntry">>,
     <<"OfframpConfirmation", "Initial">>,
     <<"BankDetailsEntry", "BankDetailsConfirmation">>,
     <<"BankDetailsConfirmation", "BankDetailsEntry">>,
     <<"BankDetailsConfirmation", "Initial">>,
     <<"SavedBankConfirmation", "Initial">>}

\* The state of the session of p in the store `map`; a session that is yet
\* to be inserted counts as Initial, the state it is inserted with
StateIn(map, p) == IF map[p] = NoneV THEN "Initial" ELSE Unwrap(map[p]).state

C29_EdgeStep ==
    \A p \in Phones :
       StateIn(sessions', p) # StateIn(sessions, p) =>
          <<StateIn(sessions, p), StateIn(sessions', p)>> \in Edges

\* C29: every change of the state of a stored session, by any message and
\* any response, is one of the ten listed edges.
C29_OnlyListedEdges == [][C29_EdgeStep]_vars

\* The withdrawal with a newly verified account was submitted: the session
\* went from BankDetailsConfirmation to Initial
C29_Witness ==
    \E r \in Requests :
       /\ Dispatched(r)
       /\ Unwrap(req[r].snap).state = "BankDetailsConfirmation"
       /\ Unwrap(req[r].after).state = "Initial"
       /\ StateIn(sessions, req[r].phone) = "Initial"

\* C30: once the account of an identifier has been provisioned (both
\* provisioning calls of a dispatch in AccountCreation succeeded) the stored
\* session has account_id present; before that it is absent.
C30_AccountIdSet ==
    \A r \in Requests :
       Dispatched(r) /\ Unwrap(req[r].snap).state = "AccountCreation" =>
          /\ Unwrap(req[r].snap).controller_address = NoneV
                => Unwrap(req[r].snap).account_id = NoneV
          /\ (/\ Len(req[r].resps) >= 3
              /\ req[r].resps[2].kind = "ok"
              /\ req[r].resps[3].kind = "ok")
                => /\ Unwrap(req[r].after).account_id # NoneV
                   /\ Unwrap(sessions[req[r].phone]).account_id # NoneV

\* C31: no request holds the guard on a worker thread that is kept by a
\* request waiting inside lock() for that guard: the holder can always be
\* resumed, so, every call returning, every request releases the guard and
\* is answered.
C31_HolderCanResume ==
    \A r, u \in Requests :
       lock = Some(r) /\ req[u].pc = "blocked" => req[u].wkr # req[r].wkr

WithdrawalStates ==
    {"OfframpConfirmation", "BankDetailsEntry", "BankDetailsConfirmation",
     "SavedBankConfirmation"}

\* C32: every stored session in OfframpConfirmation, BankDetailsEntry,
\* BankDetailsConfirmation or SavedBankConfirmation has the pending amount
\* and symbol; so the withdrawal execution always finds the amount and its
\* unwrap never panics (the guard is never poisoned).
C32_PendingInWithdrawalStates ==
    /\ \A p \in Phones :
          sessions[p] # NoneV /\ Unwrap(sessions[p]).state \in WithdrawalStates =>
             /\ Unwrap(sessions[p]).pending_amount # NoneV
             /\ Unwrap(sessions[p]).pending_currency # NoneV
    /\ ~poisoned
    /\ \A r \in Requests :
          req[r].snap # NoneV /\ Unwrap(req[r].snap).state \in WithdrawalStates =>
             /\ Unwrap(req[r].snap).pending_amount # NoneV
             /\ Unwrap(req[r].snap).pending_currency # NoneV
             /\ req[r].pc = "respond" => req[r].ack # NoneV

\* The execution was entered: `yes` for a newly verified account has
\* reached the initiation call with the pending amount
C32_Witness ==
    \E r \in Requests :
       /\ req[r].snap # NoneV
       /\ Unwrap(req[r].snap).state = "BankDetailsConfirmation"
       /\ req[r].msg = M_yes
       /\ InitiationCalled(r)
       /\ req[r].calls[3].arg.amount = Unwrap(Unwrap(req[r].snap).pending_amount)
       /\ ~poisoned

\* C33: every stored session in BankDetailsConfirmation that the next
\* handler can find (the guard is free) holds a pending bank verification,
\* and no dispatch of `yes` in that state answers that the verification
\* data was not found.
C33_VerificationPresent ==
    /\ \A p \in Phones :
          (/\ LockFree
           /\ sessions[p] # NoneV
           /\ Unwrap(sessions[p]).state = "BankDetailsConfirmation") =>
             Unwrap(sessions[p]).pending_bank_verification # NoneV
    /\ \A r \in Requests :
          (Dispatched(r) /\ Unwrap(req[r].snap).state = "BankDetailsConfirmation") =>
             \A i \in 1..Len(req[r].outbox) :
                req[r].outbox[i].tag # "VerificationNotFound"

\* `yes` in BankDetailsConfirmation saved and relisted the account, the
\* execution failed, and the session is stored in BankDetailsConfirmation
\* with the verification record gone.
C33_LostVerification ==
    \E r \in Requests :
       /\ Dispatched(r)
       /\ Unwrap(req[r].snap).state = "BankDetailsConfirmation"
       /\ Unwrap(req[r].snap).pending_bank_verification # NoneV
       /\ req[r].msg = M_yes
       /\ InitiationCalled(r)
       /\ sessions[req[r].phone] = req[r].after
       /\ Unwrap(req[r].after).state = "BankDetailsConfirmation"
       /\ Unwrap(req[r].after).pending_bank_verification = NoneV
       /\ LockFree

\* The saved accounts the backend knows
SavedAccounts == {BankA, BankB}

\* The saved account with identifier id is the account of the verification v
IsVerifiedAccount(id, v) ==
    \E b \in SavedAccounts :
       /\ b.bank_details_id = id
       /\ b.bank_name = v.bank_name
       /\ b.account_number = v.account_number

\* C34: the initiation call made for `yes` in BankDetailsConfirmation
\* carries the account just verified: its bank and its account number are
\* those of the pending bank verification the dispatch found.
C34_InitiatesVerifiedAccount ==
    \A r \in Requests :
       (/\ req[r].snap # NoneV
        /\ Unwrap(req[r].snap).state = "BankDetailsConfirmation"
        /\ Unwrap(req[r].snap).pending_bank_verification # NoneV) =>
          \A i \in 1..Len(req[r].calls) :
             req[r].calls[i].op = "initiate-withdrawal" =>
                IsVerifiedAccount(req[r].calls[i].arg.bank_account_id,
                                  Unwrap(Unwrap(req[r].snap).pending_bank_verification))

\* `yes` for the verified Opay account initiated the withdrawal to the
\* Kuda account that came first in the re-listed accounts.
C34_OtherAccountInitiated ==
    \E r \in Requests :
       /\ req[r].snap # NoneV
       /\ Unwrap(req[r].snap).state = "BankDetailsConfirmation"
       /\ Unwrap(req[r].snap).pending_bank_verification = Some(VerifA)
       /\ req[r].msg = M_yes
       /\ Len(req[r].calls) = 3
       /\ req[r].calls[3].op = "initiate-withdrawal"
       /\ req[r].calls[3].arg.bank_account_id = BankB.bank_details_id
       /\ req[r].resps[2].data = <<BankB, BankA>>

\* C35: a polling task that ended with the timeout has polled as many
\* times as the wait budget holds poll intervals: attempts times the
\* interval is at least the budget in seconds (900 polls for 30 minutes).
C35_AttemptsCoverWait ==
    (/\ poll.pc = "finished"
     /\ poll.result = Some(Err("Polling timed out"))) =>
       /\ poll.attempts = poll.max_attempts
       /\ poll.attempts * poll_interval >= poll.max_wait_minutes * 60
       /\ poll.max_wait_minutes = DefaultWaitMinutes => poll.attempts >= 900

\* The task started with the default budget of 30 minutes timed out after
\* 600 polls
C35_DefaultTimedOutEarly ==
    /\ poll.pc = "finished"
    /\ poll.result = Some(Err("Polling timed out"))
    /\ poll.max_wait_minutes = DefaultWaitMinutes
    /\ poll.attempts = 600
    /\ poll.attempts * poll_interval < poll.max_wait_minutes * 60

\* ------------------------------------------------------------ backing out
\* The sessions a handler suspended at `step` can leave for `message`, over
\* every response of the backend, when no initiation call is issued
RECURSIVE OutcomesWithoutInitiation(_, _)
OutcomesWithoutInitiation(step, message) ==
    IF step.pc \in HandlerPcs
    THEN IF Unwrap(step.call).op = "initiate-withdrawal"
         THEN {}
         ELSE UNION {OutcomesWithoutInitiation(
                        Resume(step.pc, message, step.loc, step.s, resp), message) :
                     resp \in Responses(Unwrap(step.call).op)}
    ELSE IF step.pc = "panic" THEN {} ELSE {step.s}

\* The sessions one more message can make of the sessions S
BackOutStep(S) ==
    UNION {OutcomesWithoutInitiation(Dispatch(m, s), m) : m \in Messages, s \in S}

\* Some sequence of messages and responses takes a session of S to Initial
\* without an initiation call
RECURSIVE CanBackOutFrom(_)
CanBackOutFrom(S) ==
    IF \E t \in S : t.state = "Initial"
    THEN TRUE
    ELSE LET T == S \cup BackOutStep(S)
         IN  IF T = S THEN FALSE ELSE CanBackOutFrom(T)

\* C36: from every stored session that is not Initial some continuation of
\* messages and backend responses returns the session to Initial without
\* issuing an initiation call.
C36_CanBackOut ==
    \A p \in Phones :
       (/\ LockFree
        /\ sessions[p] # NoneV
        /\ Unwrap(sessions[p]).state # "Initial") =>
          CanBackOutFrom({Unwrap(sessions[p])})

\* A session stored in BankDetailsEntry: no message cancels, and the only
\* way on leads to the initiation call
C36_StuckInEntry ==
    \E p \in Phones :
       /\ LockFree
       /\ sessions[p] # NoneV
       /\ Unwrap(sessions[p]).state \in {"BankDetailsEntry", "BankDetailsConfirmation"}
       /\ ~CanBackOutFrom({Unwrap(sessions[p])})

\* The amount is a number that is zero or negative
NotPositive(amount) == amount.kind = "num" /\ amount.tenths <= 0

\* C37: no initiation call carries an amount that is zero or negative, and
\* a `withdraw` with such an amount found in Initial neither sets the
\* pending amount nor moves the session to OfframpConfirmation.
C37_PositiveAmounts ==
    \A r \in Requests :
       /\ \A i \in 1..Len(req[r].calls) :
             req[r].calls[i].op = "initiate-withdrawal" =>
                ~NotPositive(req[r].calls[i].arg.amount)
       /\ (/\ Dispatched(r)
           /\ Unwrap(req[r].snap).state = "Initial"
           /\ req[r].msg \in {M_withdraw_neg, M_withdraw_zero}) =>
             /\ Unwrap(req[r].after).state # "OfframpConfirmation"
             /\ \/ Unwrap(req[r].after).pending_amount = NoneV
                \/ ~NotPositive(Unwrap(Unwrap(req[r].after).pending_amount))

\* `withdraw -5 usdt` was accepted and, after `confirm` and `yes` for the
\* saved account, the initiation call was issued with the amount -5.
C37_NegativeInitiated ==
    \E r \in Requests :
       /\ req[r].snap # NoneV
       /\ Unwrap(req[r].snap).state = "SavedBankConfirmation"
       /\ Unwrap(req[r].snap).pending_amount = Some(Num(-50))
       /\ req[r].msg = M_yes
       /\ Len(req[r].calls) = 1
       /\ req[r].calls[1].op = "initiate-withdrawal"
       /\ req[r].calls[1].arg.amount = Num(-50)

\* `Withdraw 0.0 usdc` found in Initial stored the pending amount 0 and
\* moved the session to OfframpConfirmation.
C37_ZeroAccepted ==
    \E r \in Requests :
       /\ Dispatched(r)
       /\ Unwrap(req[r].snap).state = "Initial"
       /\ req[r].msg = M_withdraw_zero
       /\ Unwrap(req[r].after).state = "OfframpConfirmation"
       /\ Unwrap(req[r].after).pending_amount = Some(Num(0))
====
